---- MODULE Spec2Model ----
(***************************************************************************)
(* Stream-resolution service of Vishal-streaming-API: the TTL/LRU Cache,   *)
(* the sliding-window RateLimiter and the YouTubeDownloader resolver of    *)
(* src/utils.py, with the request handlers of src/main.py that use them.   *)
(*                                                                         *)
(* Python dicts are modelled as sequences of [k, v] entries in insertion   *)
(* order (an update keeps the entry's place, a new key is appended), so    *)
(* min() and next(iter()) see the order the interpreter would give them.   *)
(* A coroutine runs atomically between two awaits that really suspend;     *)
(* asyncio.Lock is never held across an await, so each Cache / RateLimiter *)
(* method is one atomic step.                                              *)
(***************************************************************************)
EXTENDS Integers, Sequences, FiniteSets, TLC

(***************************************************************************)
(* Program constants.  MAX_CACHE_SIZE and MAX_REQUESTS_PER_MINUTE are read *)
(* from the environment by config.py; the model runs the deployment        *)
(* MAX_CACHE_SIZE=2, MAX_REQUESTS_PER_MINUTE=2.  Times are in seconds.     *)
(***************************************************************************)
CACHE_TTL == 3600
MAX_CACHE_SIZE == 2
MAX_REQUESTS_PER_MINUTE == 2
WINDOW == 60
API_CACHE_TTL == 300
NUM_PROXIES == 2

(***************************************************************************)
(* Bounds of the model.                                                    *)
(***************************************************************************)
MaxCalls == 4         \* Cache calls made in one run of SpecCache
CacheTicks == 3       \* clock readings after 0 in SpecCache
CacheTick == CACHE_TTL \div 3   \* seconds between two clock readings in SpecCache
LimiterTicks == 4     \* clock readings after 0 in SpecLimiter
LimiterTick == WINDOW \div 3    \* seconds between two clock readings in SpecLimiter
MaxBlocked == 2       \* cap of the limiter's blocked_requests counter
MaxRequests == 2      \* requests the service receives in one run of Spec
ServiceTicks == 1     \* clock readings after 0 in Spec
MaxFormats == 3       \* candidates in one list given to the format selection
MaxApiCalls == 2      \* get_stream_url calls made in one run of SpecApi
ApiTicks == 2         \* clock readings after 0 in SpecApi
ApiTick == API_CACHE_TTL \div 2   \* seconds between two clock readings in SpecApi
MaxGateRequests == 3  \* HTTP requests received in one run of SpecFrontDoor
GateTicks == 1        \* clock readings after 0 in SpecFrontDoor
GateTick == WINDOW    \* seconds between two clock readings in SpecFrontDoor
MaxStaleRequests == 3 \* requests the service receives in one run of SpecStale
StaleTicks == 2       \* clock readings after 0 in SpecStale
StaleTick == CACHE_TTL \div 2   \* seconds between two clock readings in SpecStale
MaxBuilds == 4        \* get_ydl_options calls made in one run of SpecOptions

VARIABLES
    now,            \* time.time(), in seconds
    cache,          \* Cache.cache: key -> [ts, value, size]
    access_times,   \* Cache.access_times: key -> time of last access
    cache_stats,    \* Cache.stats
    set_hung,       \* Cache.set is spinning in its eviction loop
    ret,            \* what the last Cache call returned to its caller
    calls,          \* number of Cache calls made so far
    born,           \* history: per key, time of the set that stored the live entry
    held,           \* history: per key, the value that set stored
    touched,        \* history: per key, time of its last set or successful get
    requests,       \* RateLimiter.requests: client -> list of (timestamp, count)
    limiter_stats,  \* RateLimiter.stats
    verdict,        \* what the last check_limit call returned, and to whom
    admitted,       \* history: per client, the times of its admitted calls
    executor_shutdown,  \* YouTubeDownloader._executor has been shut down
    loop_blocked,   \* the request whose shutdown(wait=True) holds the event loop, or 0
    req,            \* per request slot: the handler's position and its locals
    started,        \* number of requests received so far
    picked,         \* the last format selection: its inputs and what it gave
    stream_cache,   \* api.stream_cache: cache_key -> [url, timestamp]
    api_req,        \* per request slot of api.py: where get_stream_url stands
    api_blocked,    \* the request whose subprocess.run holds api.py's event loop, or 0
    api_started,    \* number of get_stream_url calls made so far
    extraction,     \* the last identifier extraction: the function, its input, its result
    gate,           \* the front door: resolver calls per client, open websockets, last answer
    options         \* config.YTDLP_DEFAULT_OPTS as it stands, and the last options built from it

cacheVars == <<cache, access_times, cache_stats, set_hung>>
callerVars == <<ret, calls, born, held, touched>>
limiterVars == <<requests, limiter_stats, verdict, admitted>>
serviceVars == <<executor_shutdown, loop_blocked, req, started>>
selectVars == <<picked>>
apiVars == <<stream_cache, api_req, api_blocked, api_started>>
extractVars == <<extraction>>
gateVars == <<gate>>
optionVars == <<options>>
auxVars == <<extractVars, gateVars, optionVars>>
vars == <<now, cacheVars, callerVars, limiterVars, serviceVars, selectVars, apiVars, auxVars>>

(***************************************************************************)
(* Python values.                                                          *)
(***************************************************************************)
None == <<>>
Some(v) == <<v>>
Never == 0 - 1

(***************************************************************************)
(* dict                                                                    *)
(***************************************************************************)
DictKeys(d) == {d[i].k : i \in DOMAIN d}
DictHas(d, key) == key \in DictKeys(d)
DictGet(d, key) == d[CHOOSE i \in DOMAIN d : d[i].k = key].v
DictPut(d, key, val) ==
    IF DictHas(d, key)
    THEN [i \in DOMAIN d |-> IF d[i].k = key THEN [k |-> key, v |-> val] ELSE d[i]]
    ELSE Append(d, [k |-> key, v |-> val])
DictDel(d, key) == SelectSeq(d, LAMBDA e : e.k # key)

\* min(d.items(), key=lambda x: x[1])[0]: the first key, in dict order, of least value
DictMinKey(d) ==
    LET least == CHOOSE m \in {d[i].v : i \in DOMAIN d} :
                     \A i \in DOMAIN d : m <= d[i].v
        first == CHOOSE i \in DOMAIN d :
                     /\ d[i].v = least
                     /\ \A j \in DOMAIN d : d[j].v = least => i <= j
    IN  d[first].k

(***************************************************************************)
(* class Cache.  A Cache object is the record [cache, access_times, stats, *)
(* hung]; each method maps the object before the call to the object after. *)
(***************************************************************************)
CacheObj == [cache |-> cache, access_times |-> access_times,
             stats |-> cache_stats, hung |-> set_hung]

\* the Cache object after a call
Install(obj) ==
    /\ cache' = obj.cache
    /\ access_times' = obj.access_times
    /\ cache_stats' = obj.stats
    /\ set_hung' = obj.hung

CacheInit == [cache |-> <<>>, access_times |-> <<>>,
              stats |-> [hits |-> 0, misses |-> 0, evictions |-> 0, size_bytes |-> 0],
              hung |-> FALSE]

\* Cache.get with the staleness test written <= : an entry aged exactly CACHE_TTL is served
Cache_get_Inclusive(c, key, t) ==
    IF DictHas(c.cache, key)
    THEN LET entry == DictGet(c.cache, key) IN
         IF t - entry.ts <= CACHE_TTL
         THEN [obj |-> [c EXCEPT !.access_times = DictPut(@, key, t),
                                 !.stats.hits = @ + 1],
               value |-> Some(entry.value)]
         ELSE [obj |-> [c EXCEPT !.cache = DictDel(@, key),
                                 !.access_times = DictDel(@, key),
                                 !.stats.size_bytes = @ - entry.size,
                                 !.stats.misses = @ + 1],
               value |-> None]
    ELSE [obj |-> [c EXCEPT !.stats.misses = @ + 1], value |-> None]

\* Cache.get with a hit that also restarts the entry's TTL (sliding expiry)
Cache_get_Sliding(c, key, t) ==
    IF DictHas(c.cache, key)
    THEN LET entry == DictGet(c.cache, key) IN
         IF t - entry.ts < CACHE_TTL
         THEN [obj |-> [c EXCEPT !.cache = DictPut(@, key, [entry EXCEPT !.ts = t]),
                                 !.access_times = DictPut(@, key, t),
                                 !.stats.hits = @ + 1],
               value |-> Some(entry.value)]
         ELSE [obj |-> [c EXCEPT !.cache = DictDel(@, key),
                                 !.access_times = DictDel(@, key),
                                 !.stats.size_bytes = @ - entry.size,
                                 !.stats.misses = @ + 1],
               value |-> None]
    ELSE [obj |-> [c EXCEPT !.stats.misses = @ + 1], value |-> None]

\* Cache.get with a hit that forgets to record the access (eviction turns FIFO)
Cache_get_NoTouch(c, key, t) ==
    IF DictHas(c.cache, key)
    THEN LET entry == DictGet(c.cache, key) IN
         IF t - entry.ts < CACHE_TTL
         THEN [obj |-> [c EXCEPT !.stats.hits = @ + 1],
               value |-> Some(entry.value)]
         ELSE [obj |-> [c EXCEPT !.cache = DictDel(@, key),
                                 !.access_times = DictDel(@, key),
                                 !.stats.size_bytes = @ - entry.size,
                                 !.stats.misses = @ + 1],
               value |-> None]
    ELSE [obj |-> [c EXCEPT !.stats.misses = @ + 1], value |-> None]

\* Cache.get: [obj |-> the object after the call, value |-> what is returned]
Cache_get(c, key, t) ==
    IF DictHas(c.cache, key)
    THEN LET entry == DictGet(c.cache, key) IN
         IF t - entry.ts < CACHE_TTL
         THEN [obj |-> [c EXCEPT !.access_times = DictPut(@, key, t),
                                 !.stats.hits = @ + 1],
               value |-> Some(entry.value)]
         ELSE [obj |-> [c EXCEPT !.cache = DictDel(@, key),
                                 !.access_times = DictDel(@, key),
                                 !.stats.size_bytes = @ - entry.size,
                                 !.stats.misses = @ + 1],
               value |-> None]
    ELSE [obj |-> [c EXCEPT !.stats.misses = @ + 1], value |-> None]

\* the while loop of Cache.set
RECURSIVE EvictLoop(_)
EvictLoop(c) ==
    IF Len(c.cache) >= MAX_CACHE_SIZE
    THEN IF c.access_times # <<>>
         THEN LET oldest_key == DictMinKey(c.access_times) IN
              IF DictHas(c.cache, oldest_key)
              THEN EvictLoop([c EXCEPT
                       !.cache = DictDel(@, oldest_key),
                       !.access_times = DictDel(@, oldest_key),
                       !.stats.size_bytes = @ - DictGet(c.cache, oldest_key).size,
                       !.stats.evictions = @ + 1])
              ELSE [c EXCEPT !.hung = TRUE]     \* nothing changes: the loop spins
         ELSE LET key_to_remove == c.cache[1].k IN
              EvictLoop([c EXCEPT
                       !.cache = DictDel(@, key_to_remove),
                       !.access_times = DictDel(@, key_to_remove),
                       !.stats.size_bytes = @ - DictGet(c.cache, key_to_remove).size,
                       !.stats.evictions = @ + 1])
    ELSE c

\* len(str(value).encode('utf-8')) for the values the callers store
ValueBytes(value) == IF value \in 0..9 THEN 1 ELSE 10240

\* Cache.set without its eviction loop
Cache_set_NoEvict(c, key, value, size, t) ==
    LET sz == IF size = 0 THEN ValueBytes(value) ELSE size
    IN  [c EXCEPT !.cache = DictPut(@, key, [ts |-> t, value |-> value, size |-> sz]),
                  !.access_times = DictPut(@, key, t),
                  !.stats.size_bytes = @ + sz]

\* Cache.set that leaves an entry already stored under the key as it is
Cache_set_KeepFirst(c, key, value, size, t) ==
    LET sz == IF size = 0 THEN ValueBytes(value) ELSE size
        e  == EvictLoop(c)
    IN  IF DictHas(c.cache, key) THEN c
        ELSE IF e.hung THEN e
        ELSE [e EXCEPT !.cache = DictPut(@, key, [ts |-> t, value |-> value, size |-> sz]),
                       !.access_times = DictPut(@, key, t),
                       !.stats.size_bytes = @ + sz]

\* Cache.set
Cache_set(c, key, value, size, t) ==
    LET sz == IF size = 0 THEN ValueBytes(value) ELSE size
        e  == EvictLoop(c)
    IN  IF e.hung THEN e
        ELSE [e EXCEPT !.cache = DictPut(@, key, [ts |-> t, value |-> value, size |-> sz]),
                       !.access_times = DictPut(@, key, t),
                       !.stats.size_bytes = @ + sz]

\* Cache.delete that leaves the key's access time behind
Cache_delete_KeepAccess(c, key) ==
    IF DictHas(c.cache, key)
    THEN [c EXCEPT !.cache = DictDel(@, key),
                   !.stats.size_bytes = @ - DictGet(c.cache, key).size]
    ELSE c

\* Cache.delete
Cache_delete(c, key) ==
    IF DictHas(c.cache, key)
    THEN [c EXCEPT !.cache = DictDel(@, key),
                   !.access_times = DictDel(@, key),
                   !.stats.size_bytes = @ - DictGet(c.cache, key).size]
    ELSE c

\* Cache.clear
Cache_clear(c) ==
    [c EXCEPT !.cache = <<>>, !.access_times = <<>>,
              !.stats.size_bytes = 0, !.stats.evictions = 0]

(***************************************************************************)
(* class RateLimiter.  A RateLimiter object is the record [requests,       *)
(* stats]; requests maps a client to its list of <<timestamp, count>>.     *)
(***************************************************************************)
LimiterObj == [requests |-> requests, stats |-> limiter_stats]

LimiterInit == [requests |-> <<>>,
                stats |-> [total_requests |-> 0, blocked_requests |-> 0, by_ip |-> <<>>]]

\* [(ts, count) for ts, count in timestamps if ts > window_start]
InWindow(timestamps, window_start) ==
    SelectSeq(timestamps, LAMBDA p : p[1] > window_start)

\* sum(count for ts, count in timestamps if ts > window_start)
RECURSIVE SumCounts(_, _)
SumCounts(timestamps, window_start) ==
    IF timestamps = <<>> THEN 0
    ELSE (IF Head(timestamps)[1] > window_start THEN Head(timestamps)[2] ELSE 0)
         + SumCounts(Tail(timestamps), window_start)

\* the dict comprehension that rebuilds self.requests: clients with no timestamp
\* left in the window are dropped, the others keep their order
PruneRequests(reqs, window_start) ==
    LET kept == SelectSeq(reqs, LAMBDA e : InWindow(e.v, window_start) # <<>>)
    IN  [i \in DOMAIN kept |-> [k |-> kept[i].k, v |-> InWindow(kept[i].v, window_start)]]

\* dict.get(key, default)
DictGetOr(d, key, default) == IF DictHas(d, key) THEN DictGet(d, key) ELSE default

\* check_limit whose window also holds the timestamp exactly 60 seconds old
RateLimiter_check_limit_Closed(rl, client_ip, current_time) ==
    LET window_start == current_time - WINDOW - 1
        pruned == PruneRequests(rl.requests, window_start)
        reqs == IF DictHas(pruned, client_ip) THEN pruned ELSE DictPut(pruned, client_ip, <<>>)
        request_count == SumCounts(DictGet(reqs, client_ip), window_start)
    IN  IF request_count >= MAX_REQUESTS_PER_MINUTE
        THEN [obj |-> [requests |-> reqs,
                       stats |-> [rl.stats EXCEPT
                           !.blocked_requests = @ + 1,
                           !.by_ip = DictPut(@, client_ip, DictGetOr(@, client_ip, 0) + 1)]],
              ok |-> FALSE]
        ELSE [obj |-> [requests |-> DictPut(reqs, client_ip,
                           InWindow(Append(DictGet(reqs, client_ip), <<current_time, 1>>),
                                    window_start)),
                       stats |-> [rl.stats EXCEPT !.total_requests = @ + 1]],
              ok |-> TRUE]

\* RateLimiter.check_limit: [obj |-> the object after the call, ok |-> what is returned]
RateLimiter_check_limit(rl, client_ip, current_time) ==
    LET window_start == current_time - WINDOW
        pruned == PruneRequests(rl.requests, window_start)
        reqs == IF DictHas(pruned, client_ip) THEN pruned ELSE DictPut(pruned, client_ip, <<>>)
        request_count == SumCounts(DictGet(reqs, client_ip), window_start)
    IN  IF request_count >= MAX_REQUESTS_PER_MINUTE
        THEN [obj |-> [requests |-> reqs,
                       stats |-> [rl.stats EXCEPT
                           !.blocked_requests = @ + 1,
                           !.by_ip = DictPut(@, client_ip, DictGetOr(@, client_ip, 0) + 1)]],
              ok |-> FALSE]
        ELSE [obj |-> [requests |-> DictPut(reqs, client_ip,
                           InWindow(Append(DictGet(reqs, client_ip), <<current_time, 1>>),
                                    window_start)),
                       stats |-> [rl.stats EXCEPT !.total_requests = @ + 1]],
              ok |-> TRUE]

InitLimiterObj ==
    /\ requests = LimiterInit.requests
    /\ limiter_stats = LimiterInit.stats

(***************************************************************************)
(* The extraction engine (yt_dlp.YoutubeDL.extract_info) and the format    *)
(* candidates it reports.  A candidate is a record; a numeric field may be *)
(* missing from the dict (Absent) or present with the value None (Null),   *)
(* a codec field may be missing ("absent").                                *)
(***************************************************************************)
Absent == 0 - 1
Null == 0 - 2

\* dict.get(field, default) and Python's `x or y` on numbers
PyGet(x, default) == IF x = Absent THEN default ELSE x
PyOr(x, y) == IF x = Null \/ x = 0 THEN y ELSE x

Fmt(id, ext, acodec, vcodec, height, abr) ==
    [format_id |-> id, url |-> "https://cdn/" \o id, ext |-> ext,
     acodec |-> acodec, vcodec |-> vcodec, height |-> height, width |-> Absent,
     fps |-> Absent, abr |-> abr, tbr |-> Absent, asr |-> Absent]

\* the candidate lists the engine reports in this model
M4A128 == Fmt("140", "m4a", "mp4a", "none", Null, 128)
OPUS70 == Fmt("249", "webm", "opus", "none", Null, 70)
MUXED360 == Fmt("18", "mp4", "mp4a", "avc1", 360, Null)
VIDEO1080 == Fmt("137", "mp4", "none", "avc1", 1080, Null)
NULLH == Fmt("95", "mp4", "mp4a", "avc1", Null, Null)
Catalogue == << <<M4A128, OPUS70, MUXED360>>, <<VIDEO1080>>, <<NULLH>> >>

\* what one engine invocation does: it raises, returns None, or returns the
\* metadata with candidate list Catalogue[n]
EngineOutcomes == {0 - 1, 0} \cup DOMAIN Catalogue
Raises == 0 - 1
NoInfo == 0

\* what an engine does on the first and on the second invocation of one
\* _extract_info_sync call.  The second is never made when the first returns
\* metadata or raises: one script stands for each such first outcome; a retry
\* that returns metadata returns the first candidate list
Scripts ==
    {sc \in EngineOutcomes \X EngineOutcomes :
        /\ sc[1] \in DOMAIN Catalogue => sc[2] = NoInfo
        /\ sc[1] = Raises => sc[2] = 1
        /\ sc[1] = NoInfo => sc[2] \in {Raises, NoInfo, 1}}

\* lexicographic > on the sort keys (tuples of numbers)
RECURSIVE KeyGreater(_, _)
KeyGreater(a, b) ==
    IF a = <<>> THEN FALSE
    ELSE IF Head(a) # Head(b) THEN Head(a) > Head(b)
    ELSE KeyGreater(Tail(a), Tail(b))

\* list.sort(key=..., reverse=True)[0]: the first candidate of greatest key
\* (the sort is stable, also when reversed)
FirstBest(fs, Key(_)) ==
    LET i == CHOOSE i \in DOMAIN fs :
                 /\ \A j \in DOMAIN fs : ~KeyGreater(Key(fs[j]), Key(fs[i]))
                 /\ \A j \in DOMAIN fs : (j < i) => KeyGreater(Key(fs[i]), Key(fs[j]))
    IN  fs[i]

\* 'm4a' in str(x.get('ext', '')).lower(): on the extensions of Catalogue the
\* substring test is equality
HasInExt(f, word) == IF f.ext = word THEN 1 ELSE 0

AudioKey(x) ==
    << PyOr(PyOr(PyGet(x.abr, 0), PyGet(x.tbr, 0)), 0),
       HasInExt(x, "m4a"), HasInExt(x, "mp3"),
       PyOr(PyGet(x.asr, 0), 0) >>

VideoKey(x) ==
    << PyOr(PyGet(x.height, 0), 0), PyOr(PyGet(x.width, 0), 0),
       PyOr(PyGet(x.fps, 0), 0), PyOr(PyGet(x.tbr, 0), 0) >>

\* f.get('acodec') != 'none': a missing codec field is not 'none'
AudioFormats(formats) == SelectSeq(formats, LAMBDA f : f.acodec # "none")
VideoFormats(formats) == SelectSeq(formats, LAMBDA f : f.vcodec # "none")

\* the height ceiling of a quality tier, Absent when the tier has none
TierCeiling(quality) ==
    CASE quality = "low" -> 360
      [] quality = "medium" -> 480
      [] quality = "high" -> 720
      [] OTHER -> Absent

\* f.get('height', 0) <= ceiling raises TypeError when height is None
TierRaises(vfs, quality) ==
    /\ TierCeiling(quality) # Absent
    /\ \E i \in DOMAIN vfs : vfs[i].height = Null
TierFormats(vfs, quality) ==
    IF TierCeiling(quality) = Absent THEN vfs
    ELSE SelectSeq(vfs, LAMBDA f : PyGet(f.height, 0) <= TierCeiling(quality))

\* the candidate the selection of _extract_info_sync settles on:
\* [found |-> "yes" | "no" | "raise", f |-> the candidate]
SelectFormat(formats, video_type, quality) ==
    IF video_type = "audio"
    THEN LET afs == AudioFormats(formats) IN
         IF afs # <<>> THEN [found |-> "yes", f |-> FirstBest(afs, AudioKey)]
                       ELSE [found |-> "no", f |-> M4A128]
    ELSE LET vfs == VideoFormats(formats) IN
         IF TierRaises(vfs, quality) THEN [found |-> "raise", f |-> M4A128]
         ELSE LET tfs == TierFormats(vfs, quality) IN
              IF tfs # <<>> THEN [found |-> "yes", f |-> FirstBest(tfs, VideoKey)]
                            ELSE [found |-> "no", f |-> M4A128]

(***************************************************************************)
(* class YouTubeDownloader.                                                *)
(***************************************************************************)
\* config.COOKIES_FILE is set and the file exists; config.PROXY is set
COOKIES_CONFIGURED == TRUE
PROXY_CONFIGURED == FALSE

\* get_ydl_options: the options that matter to the engine call
get_ydl_options(video_type, quality, use_cookies) ==
    [cookiefile |-> use_cookies /\ COOKIES_CONFIGURED,
     proxy |-> PROXY_CONFIGURED,
     format |-> IF video_type = "audio" THEN "bestaudio" ELSE quality]

\* results of the resolver.  oid is the identity of the dict object: a success
\* dict is stored in the cache by reference, possibly under two keys, and a
\* write to it shows under both (0: an object no two places share).  produced
\* is history: the time get_stream_info had the data from the engine
ErrorResult(message, video_id) ==
    [status |-> "error", message |-> message, video_id |-> video_id,
     stream_url |-> "", type |-> "", format_id |-> "", cached |-> FALSE, oid |-> 0,
     produced |-> 0]
SuccessResult(video_id, video_type, f) ==
    [status |-> "success", message |-> "", video_id |-> video_id,
     stream_url |-> f.url, type |-> video_type, format_id |-> f.format_id,
     cached |-> FALSE, oid |-> 0, produced |-> 0]

\* one engine invocation: the options it was given and what it did
Attempt(video_type, quality, use_cookies, outcome) ==
    [opts |-> get_ydl_options(video_type, quality, use_cookies), outcome |-> outcome]

\* the same part without its except clauses: what the selection raises leaves
\* the function
ResultFromInfo_Uncaught(video_id, video_type, quality, n) ==
    LET sel == SelectFormat(Catalogue[n], video_type, quality) IN
    IF sel.found = "raise" THEN [ErrorResult("TypeError", "") EXCEPT !.status = "raised"]
    ELSE IF sel.found = "no"
         THEN ErrorResult(IF video_type = "audio" THEN "No audio format found"
                          ELSE "No quality video format found", "")
    ELSE IF video_type = "video"
         THEN [ErrorResult("NameError", "") EXCEPT !.status = "raised"]
    ELSE SuccessResult(video_id, video_type, sel.f)

\* the part of _extract_info_sync after metadata was obtained
ResultFromInfo(video_id, video_type, quality, n) ==
    LET sel == SelectFormat(Catalogue[n], video_type, quality) IN
    IF sel.found = "raise" THEN ErrorResult("Extraction error", "")
    ELSE IF sel.found = "no"
         THEN ErrorResult(IF video_type = "audio" THEN "No audio format found"
                          ELSE "No quality video format found", "")
    ELSE IF video_type = "video"
         \* line 629 reads cls in a staticmethod: NameError, caught at line 642
         THEN ErrorResult("Extraction error", "")
    ELSE SuccessResult(video_id, video_type, sel.f)

\* _extract_info_sync with a retry that keeps the cookie file
ExtractInfoSync_KeepCookies(video_id, video_type, quality, script) ==
    LET first == Attempt(video_type, quality, TRUE, script[1])
        second == Attempt(video_type, quality, TRUE, script[2])
    IN  IF script[1] = Raises
        THEN [attempts |-> <<first>>, result |-> ErrorResult("Download error", "")]
        ELSE IF script[1] # NoInfo
        THEN [attempts |-> <<first>>,
              result |-> ResultFromInfo(video_id, video_type, quality, script[1])]
        ELSE IF script[2] = Raises
        THEN [attempts |-> <<first, second>>, result |-> ErrorResult("Download error", "")]
        ELSE IF script[2] = NoInfo
        THEN [attempts |-> <<first, second>>,
              result |-> ErrorResult("Could not extract video info", "")]
        ELSE [attempts |-> <<first, second>>,
              result |-> ResultFromInfo(video_id, video_type, quality, script[2])]

\* _extract_info_sync, run against an engine whose successive invocations do
\* script[1], script[2]: [attempts |-> the invocations made, result |-> the dict returned]
ExtractInfoSync(video_id, video_type, quality, script) ==
    LET first == Attempt(video_type, quality, TRUE, script[1])
        second == Attempt(video_type, quality, FALSE, script[2])
    IN  IF script[1] = Raises
        THEN [attempts |-> <<first>>, result |-> ErrorResult("Download error", "")]
        ELSE IF script[1] # NoInfo
        THEN [attempts |-> <<first>>,
              result |-> ResultFromInfo(video_id, video_type, quality, script[1])]
        ELSE IF script[2] = Raises
        THEN [attempts |-> <<first, second>>, result |-> ErrorResult("Download error", "")]
        ELSE IF script[2] = NoInfo
        THEN [attempts |-> <<first, second>>,
              result |-> ErrorResult("Could not extract video info", "")]
        ELSE [attempts |-> <<first, second>>,
              result |-> ResultFromInfo(video_id, video_type, quality, script[2])]

(***************************************************************************)
(* The request handlers.  A URL is its shape and the identifier it names;  *)
(* a request slot holds one request from its arrival to its reply.         *)
(***************************************************************************)
ReqSet == {1, 2}
UrlSet == {[shape |-> "watch", id |-> "v1"], [shape |-> "junk", id |-> ""]}
TypeSet == {"audio", "video"}
QualitySet == {"best", "low"}

\* YouTubeUtils.extract_video_id and is_valid_youtube_url on these shapes: every
\* pattern wants the identifier after "v=" or "/", which a bare identifier lacks
extract_video_id(url) ==
    IF url.shape \in {"watch", "short", "embed"} THEN Some(url.id) ELSE None
is_valid_youtube_url(url) == url.shape \in {"watch", "short", "embed"}

PoolShutDown == "cannot schedule new futures after shutdown"

\* the payloads /formats and /info return and cache
Payload(body, video_id) ==
    [status |-> "", message |-> body, video_id |-> video_id,
     stream_url |-> "", type |-> "", format_id |-> "", cached |-> FALSE, oid |-> 0,
     produced |-> 0]

IdleReq ==
    [pc |-> "idle", h |-> "", url |-> [shape |-> "junk", id |-> ""], video_id |-> "",
     video_type |-> "", quality |-> "", detailed |-> FALSE, key |-> "",
     script |-> <<>>, attempts |-> <<>>, result |-> ErrorResult("", ""),
     wrote |-> None, code |-> 0, hkey |-> "", hwrote |-> None, force |-> FALSE]

\* the handler returns (code 0: the value of a direct get_stream_info call)
Done(q, code, result) == [q EXCEPT !.pc = "done", !.code = code, !.result = result]

\* cached['cached'] = True on the object the cache holds
CacheMark(c, key) ==
    [c EXCEPT !.cache = DictPut(@, key, [DictGet(@, key) EXCEPT !.value.cached = TRUE])]

\* result['cached'] = True on a result dict the cache holds: every entry that
\* refers to the object shows the write
CacheMarkObject(c, oid) ==
    [c EXCEPT !.cache = [i \in DOMAIN @ |->
        IF @[i].v.value.oid = oid THEN [@[i] EXCEPT !.v.value.cached = TRUE] ELSE @[i]]]

\* the cache keys of the handlers, and the size each handler declares
StreamKey(q) == q.video_type \o ":" \o q.video_id \o ":" \o q.quality
StreamSize(video_type) == IF video_type = "audio" THEN 10240 ELSE 20480
InfoKey(q) == "info:" \o q.video_id \o ":" \o (IF q.detailed THEN "True" ELSE "False")
FormatsKey(q) == "formats:" \o q.video_id

\* what the handler of q does once get_stream_info has returned result, the
\* cache object being c: [obj |-> the cache object after, req |-> q after]
StepAfterResolve(q, result, c) ==
    IF q.h = "info"
    THEN IF result.status # "success"
         THEN [obj |-> c, req |-> Done(q, 500, result)]
         ELSE IF q.detailed /\ ~executor_shutdown
         THEN [obj |-> c, req |-> [q EXCEPT !.pc = "with_engine", !.result = result]]
         ELSE [obj |-> Cache_set(c, InfoKey(q), Payload("info", q.video_id), 30720, now),
               req |-> Done(q, 200, Payload("info", q.video_id))]
    ELSE IF q.h = "stream"
    THEN IF result.status # "success"
         THEN [obj |-> c, req |-> Done(q, 500, result)]
         ELSE IF ~result.cached
         THEN [obj |-> Cache_set(c, q.hkey, result, StreamSize(q.video_type), now),
               req |-> Done([q EXCEPT !.hwrote = Some(q.hkey)], 302, result)]
         ELSE [obj |-> c, req |-> Done(q, 302, result)]
    ELSE [obj |-> c, req |-> Done(q, 0, result)]

\* get_stream_info up to its first suspension
StepBeginResolve(q0, c) ==
    LET video_id == extract_video_id(q0.url) IN
    IF video_id = None
    THEN [obj |-> c, req |-> Done(q0, 0, ErrorResult("Invalid YouTube URL", ""))]
    ELSE LET q == [q0 EXCEPT !.video_id = video_id[1],
                             !.key = video_id[1] \o ":" \o q0.video_type \o ":" \o q0.quality]
             g == Cache_get(c, q.key, now)
         IN  IF g.value # None
             THEN StepAfterResolve(q, g.value[1], g.obj)
             ELSE IF executor_shutdown
             THEN StepAfterResolve(q, ErrorResult(PoolShutDown, q.video_id), g.obj)
             ELSE [obj |-> g.obj, req |-> [q EXCEPT !.pc = "engine"]]

Settle(r, step) ==
    /\ Install(step.obj)
    /\ req' = [req EXCEPT ![r] = step.req]

\* a request takes the first free slot (which slot holds it has no meaning);
\* the run receives at most max requests
ArriveWithin(r, max) ==
    /\ loop_blocked = 0
    /\ req[r].pc = "idle"
    /\ \A o \in ReqSet : o < r => req[o].pc # "idle"
    /\ started < max
    /\ started' = started + 1

Arrive(r) == ArriveWithin(r, MaxRequests)

\* a caller of downloader.get_stream_info (/download/audio, /download/video, /ws)
StartResolve(r, url, video_type, quality) ==
    /\ Arrive(r)
    /\ Settle(r, StepBeginResolve([IdleReq EXCEPT !.h = "resolve", !.url = url,
                  !.video_type = video_type, !.quality = quality], CacheObj))
    /\ UNCHANGED <<now, executor_shutdown, loop_blocked, callerVars, limiterVars, selectVars, apiVars, auxVars>>

\* stream_audio and stream_video up to their first suspension
StreamBegin(r, url, video_type, quality, force_refresh) ==
    /\ LET id == extract_video_id(url)
           q0 == [IdleReq EXCEPT !.h = "stream", !.url = url, !.video_type = video_type,
                                !.quality = quality, !.force = force_refresh,
                                !.video_id = IF id = None THEN "" ELSE id[1]]
           q == [q0 EXCEPT !.hkey = StreamKey(q0)]
           g == Cache_get(CacheObj, q.hkey, now)
       IN  IF ~is_valid_youtube_url(url)
           THEN Settle(r, [obj |-> CacheObj, req |-> Done(q, 400, ErrorResult("Invalid YouTube URL", ""))])
           ELSE IF force_refresh
           THEN Settle(r, StepBeginResolve(q, CacheObj))
           ELSE IF g.value # None
           THEN Settle(r, StepAfterResolve(q, [g.value[1] EXCEPT !.cached = TRUE],
                                           CacheMarkObject(g.obj, g.value[1].oid)))
           ELSE Settle(r, StepBeginResolve(q, g.obj))
    /\ UNCHANGED <<now, executor_shutdown, loop_blocked, callerVars, limiterVars, selectVars, apiVars, auxVars>>

\* GET /stream/audio and GET /stream/video
StartStream(r, url, video_type, quality, force_refresh) ==
    /\ Arrive(r)
    /\ StreamBegin(r, url, video_type, quality, force_refresh)

\* GET /stream/audio and GET /stream/video in a run of MaxStaleRequests requests
StartStale(r, url, video_type, quality, force_refresh) ==
    /\ ArriveWithin(r, MaxStaleRequests)
    /\ StreamBegin(r, url, video_type, quality, force_refresh)

\* GET /info
StartInfo(r, url, detailed, force_refresh) ==
    /\ Arrive(r)
    /\ LET id == extract_video_id(url)
           q == [IdleReq EXCEPT !.h = "info", !.url = url, !.detailed = detailed,
                                !.video_id = IF id = None THEN "" ELSE id[1],
                                !.video_type = "video", !.quality = "best"]
           g == Cache_get(CacheObj, InfoKey(q), now)
       IN  IF ~is_valid_youtube_url(url)
           THEN Settle(r, [obj |-> CacheObj, req |-> Done(q, 400, ErrorResult("Invalid YouTube URL", ""))])
           ELSE IF force_refresh
           THEN Settle(r, StepBeginResolve(q, CacheObj))
           ELSE IF g.value # None
           THEN Settle(r, [obj |-> CacheMark(g.obj, InfoKey(q)),
                           req |-> Done(q, 200, [g.value[1] EXCEPT !.cached = TRUE])])
           ELSE Settle(r, StepBeginResolve(q, g.obj))
    /\ UNCHANGED <<now, executor_shutdown, loop_blocked, callerVars, limiterVars, selectVars, apiVars, auxVars>>

\* GET /formats
StartFormats(r, url) ==
    /\ Arrive(r)
    /\ LET id == extract_video_id(url)
           q == [IdleReq EXCEPT !.h = "formats", !.url = url,
                                !.video_id = IF id = None THEN "" ELSE id[1]]
           g == Cache_get(CacheObj, FormatsKey(q), now)
       IN  IF ~is_valid_youtube_url(url)
           THEN Settle(r, [obj |-> CacheObj, req |-> Done(q, 400, ErrorResult("Invalid YouTube URL", ""))])
           ELSE IF g.value # None
           THEN Settle(r, [obj |-> CacheMark(g.obj, FormatsKey(q)),
                           req |-> Done(q, 200, [g.value[1] EXCEPT !.cached = TRUE])])
           ELSE IF executor_shutdown
           THEN Settle(r, [obj |-> g.obj, req |-> Done(q, 500, ErrorResult(PoolShutDown, ""))])
           ELSE Settle(r, [obj |-> g.obj, req |-> [q EXCEPT !.pc = "with_engine"]])
    /\ UNCHANGED <<now, executor_shutdown, loop_blocked, callerVars, limiterVars, selectVars, apiVars, auxVars>>

\* the identity of a dict that is created now: one that no dict still held by
\* the cache or by a request has
LiveOids ==
    {cache[i].v.value.oid : i \in DOMAIN cache} \cup {req[o].result.oid : o \in ReqSet}
FreshOid == CHOOSE n \in 1..(Len(cache) + Cardinality(ReqSet) + 1) :
                /\ n \notin LiveOids
                /\ \A m \in 1..(n - 1) : m \in LiveOids

\* a pool thread runs _extract_info_sync against an engine that does script
WorkerExtract(r, script) ==
    /\ req[r].pc = "engine"
    /\ LET x == ExtractInfoSync(req[r].video_id, req[r].video_type, req[r].quality, script) IN
       req' = [req EXCEPT ![r].pc = "extracted", ![r].script = script,
                          ![r].attempts = x.attempts,
                          ![r].result = IF x.result.status = "success"
                                        THEN [x.result EXCEPT !.oid = FreshOid]
                                        ELSE x.result]
    /\ UNCHANGED <<now, cacheVars, executor_shutdown, loop_blocked, started, callerVars, limiterVars, selectVars, apiVars, auxVars>>

\* a get_stream_info that stores whatever the thread returned
ShouldStore_Always(result) == result.status \in {"success", "error"}

\* if result.get('status') == 'success': await cache.set(cache_key, result, ...)
ShouldStore(result) == result.status = "success"

\* get_stream_info resumes with the thread's result, and its caller with it
FinishResolve(r) ==
    /\ loop_blocked = 0
    /\ req[r].pc = "extracted"
    /\ LET q == req[r]
           result == IF q.result.status = "success"
                     THEN [q.result EXCEPT !.produced = now] ELSE q.result
           ok == ShouldStore(result)
           c == IF ok THEN Cache_set(CacheObj, q.key, result, 10240, now) ELSE CacheObj
       IN  Settle(r, StepAfterResolve([q EXCEPT !.wrote = IF ok THEN Some(q.key) ELSE None],
                                      result, c))
    /\ UNCHANGED <<now, executor_shutdown, loop_blocked, started, callerVars, limiterVars, selectVars, apiVars, auxVars>>

\* a pool thread runs the engine call made inside `with downloader._executor`
WorkerWith(r, outcome) ==
    /\ req[r].pc = "with_engine"
    /\ req' = [req EXCEPT ![r].pc = "with_done", ![r].script = <<outcome>>]
    /\ UNCHANGED <<now, cacheVars, executor_shutdown, loop_blocked, started, callerVars, limiterVars, selectVars, apiVars, auxVars>>

\* the await returns and the with block is left: ThreadPoolExecutor.__exit__
\* calls shutdown(wait=True) on the event loop's thread
ExitWith(r) ==
    /\ loop_blocked = 0
    /\ req[r].pc = "with_done"
    /\ executor_shutdown' = TRUE
    /\ loop_blocked' = r
    /\ req' = [req EXCEPT ![r].pc = "joining"]
    /\ UNCHANGED <<now, cacheVars, started, callerVars, limiterVars, selectVars, apiVars, auxVars>>

\* shutdown(wait=True) returns once every submitted job has run; the handler goes on
JoinWith(r) ==
    /\ loop_blocked = r
    /\ req[r].pc = "joining"
    /\ \A o \in ReqSet : req[o].pc \notin {"engine", "with_engine"}
    /\ loop_blocked' = 0
    /\ LET q == req[r]
           outcome == q.script[1]
       IN  IF q.h = "formats"
           THEN IF outcome = Raises
                THEN Settle(r, [obj |-> CacheObj, req |-> Done(q, 500, ErrorResult("Error getting formats", ""))])
                ELSE IF outcome = NoInfo
                \* HTTPException(404) is raised inside the try and caught by
                \* `except Exception`, which answers 500
                THEN Settle(r, [obj |-> CacheObj, req |-> Done(q, 500, ErrorResult("Error getting formats", ""))])
                ELSE Settle(r, [obj |-> Cache_set(CacheObj, FormatsKey(q), Payload("formats", q.video_id), 51200, now),
                                req |-> Done(q, 200, Payload("formats", q.video_id))])
           ELSE Settle(r, [obj |-> Cache_set(CacheObj, InfoKey(q), Payload("info", q.video_id), 30720, now),
                           req |-> Done(q, 200, Payload("info", q.video_id))])
    /\ UNCHANGED <<now, executor_shutdown, started, callerVars, limiterVars, selectVars, apiVars, auxVars>>

\* the reply is sent and the slot is free again
Reply(r) ==
    /\ loop_blocked = 0
    /\ req[r].pc = "done"
    /\ req' = [req EXCEPT ![r] = IdleReq]
    /\ UNCHANGED <<now, cacheVars, executor_shutdown, loop_blocked, started, callerVars, limiterVars, selectVars, apiVars, auxVars>>

ServiceClock ==
    /\ now + CACHE_TTL <= ServiceTicks * CACHE_TTL
    /\ now' = now + CACHE_TTL
    /\ UNCHANGED <<cacheVars, serviceVars, callerVars, limiterVars, selectVars, apiVars, auxVars>>

StaleClock ==
    /\ now + StaleTick <= StaleTicks * StaleTick
    /\ now' = now + StaleTick
    /\ UNCHANGED <<cacheVars, serviceVars, callerVars, limiterVars, selectVars, apiVars, auxVars>>

InitServiceObj ==
    /\ executor_shutdown = FALSE
    /\ loop_blocked = 0
    /\ req = [r \in ReqSet |-> IdleReq]
    /\ started = 0

(***************************************************************************)
(* The format selection of _extract_info_sync on its own: the candidate    *)
(* lists it may be given, and one application of it.                       *)
(***************************************************************************)
MUXED720 == Fmt("22", "mp4", "mp4a", "avc1", 720, 192)
VIDEO360 == Fmt("134", "mp4", "none", "avc1", 360, Null)
NOACODEC == Fmt("598", "webm", "absent", "vp9", 720, Absent)
Pool == {M4A128, OPUS70, MUXED360, MUXED720, VIDEO360, VIDEO1080, NOACODEC, NULLH}
FormatLists == UNION {[1..n -> Pool] : n \in 0..MaxFormats}
TierSet == {"best", "low", "medium", "high"}

\* a candidate carries an audio / a video stream
HasAudio(f) == f.acodec \notin {"none", "absent"}
HasVideo(f) == f.vcodec \notin {"none", "absent"}

NoPick ==
    [formats |-> <<>>, video_type |-> "", quality |-> "", done |-> FALSE,
     sel |-> [found |-> "no", f |-> M4A128]]

\* the selection runs on the candidate list it was given
Select ==
    /\ ~picked.done
    /\ picked' = [picked EXCEPT !.done = TRUE,
                     !.sel = SelectFormat(picked.formats, picked.video_type, picked.quality)]
    /\ UNCHANGED <<now, cacheVars, callerVars, limiterVars, serviceVars, apiVars, auxVars>>

InitPicked == picked = NoPick

(***************************************************************************)
(* src/api.py: a second application with its own resolver, get_stream_url, *)
(* and its own cache, the dict stream_cache.  get_stream_url is declared   *)
(* async but never awaits: it runs the engine with subprocess.run on the   *)
(* thread of the event loop, which serves nothing else until it returns.   *)
(***************************************************************************)
ApiReqSet == {1, 2}
ApiUrlSet == {[shape |-> "bare", id |-> "v1"], [shape |-> "watch", id |-> "v1"],
              [shape |-> "junk", id |-> ""]}
ApiQualitySet == {"None", "low"}

\* the text of an input
UrlText(url) ==
    CASE url.shape = "bare" -> url.id
      [] url.shape = "watch" -> "https://www.youtube.com/watch?v=" \o url.id
      [] url.shape = "short" -> "https://youtu.be/" \o url.id
      [] url.shape = "embed" -> "https://www.youtube.com/embed/" \o url.id
      [] OTHER -> "not a video"

\* api.extract_video_id: the identifier, or the input itself when no pattern matches
api_extract_video_id(url) ==
    IF url.shape \in {"bare", "watch", "short", "embed"} THEN url.id ELSE UrlText(url)

\* what one subprocess.run of yt-dlp gives: a stream URL on stdout, nothing
\* usable, or an exception (TimeoutExpired); there is no video to find for
\* an input that names none
ApiOutcomes(url) == IF url.shape = "junk" THEN {"empty", "raise"} ELSE {"url", "empty", "raise"}

ApiIdle ==
    [pc |-> "idle", url |-> [shape |-> "junk", id |-> ""], media_type |-> "",
     quality |-> "", cache_key |-> "", clean_video_id |-> "", proxy |-> 0,
     invoked |-> 0, result |-> None, wrote |-> None, tried |-> <<>>]

\* get_stream_url up to its first engine call
ApiStart(r, url, media_type, quality) ==
    /\ api_blocked = 0
    /\ api_req[r].pc = "idle"
    /\ api_started < MaxApiCalls
    /\ api_started' = api_started + 1
    /\ LET cache_key == UrlText(url) \o ":" \o media_type \o ":" \o quality
           q == [ApiIdle EXCEPT !.url = url, !.media_type = media_type,
                                !.quality = quality, !.cache_key = cache_key]
       IN  IF /\ DictHas(stream_cache, cache_key)
              /\ now - DictGet(stream_cache, cache_key).timestamp < API_CACHE_TTL
           THEN /\ api_req' = [api_req EXCEPT ![r] =
                       [q EXCEPT !.pc = "done",
                                 !.result = Some(DictGet(stream_cache, cache_key).url)]]
                /\ UNCHANGED api_blocked
           ELSE /\ api_req' = [api_req EXCEPT ![r] =
                       [q EXCEPT !.pc = "direct",
                                 !.clean_video_id = api_extract_video_id(url)]]
                /\ api_blocked' = r
    /\ UNCHANGED <<now, stream_cache, cacheVars, callerVars, limiterVars, serviceVars, selectVars, auxVars>>

\* the configured proxies, and those the shuffled loop has not reached yet
ProxySet == 1..NUM_PROXIES
Untried(q) == ProxySet \ {q.tried[i].proxy : i \in DOMAIN q.tried}

\* a get_stream_url that gives up after the last proxy
AfterFailure_GiveUp(q) ==
    IF q.pc = "fallback" \/ Untried(q) = {}
    THEN {[q EXCEPT !.pc = "done"]}
    ELSE {[q EXCEPT !.pc = "proxy", !.proxy = p] : p \in Untried(q)}

\* where get_stream_url goes on after an attempt that gave no URL: the next
\* proxy of random.shuffle(PROXIES), then the last resort, then return None
AfterFailure(q) ==
    IF q.pc = "fallback"
    THEN {[q EXCEPT !.pc = "done"]}
    ELSE IF Untried(q) # {}
    THEN {[q EXCEPT !.pc = "proxy", !.proxy = p] : p \in Untried(q)}
    ELSE {[q EXCEPT !.pc = "fallback"]}

\* one subprocess.run returns: the direct call, the call through the next
\* proxy, or the last-resort call; get_stream_url returns on the first URL
ApiEngine(r, outcome) ==
    /\ api_blocked = r
    /\ api_req[r].pc \in {"direct", "proxy", "fallback"}
    /\ outcome \in ApiOutcomes(api_req[r].url)
    /\ LET q == [api_req[r] EXCEPT
                    !.invoked = @ + 1,
                    !.tried = Append(@, [kind |-> api_req[r].pc, proxy |-> api_req[r].proxy,
                                         ok |-> outcome = "url"])]
           url == "https://cdn/" \o q.clean_video_id \o "/" \o q.media_type
       IN  IF outcome = "url"
           THEN /\ stream_cache' = DictPut(stream_cache, q.cache_key,
                                           [url |-> url, timestamp |-> now])
                /\ api_req' = [api_req EXCEPT ![r] =
                       [q EXCEPT !.pc = "done", !.proxy = 0, !.result = Some(url),
                                 !.wrote = Some(q.cache_key)]]
                /\ api_blocked' = 0
           ELSE /\ \E n \in AfterFailure(q) :
                       /\ api_req' = [api_req EXCEPT ![r] =
                              IF n.pc = "done" THEN [n EXCEPT !.proxy = 0] ELSE n]
                       /\ api_blocked' = IF n.pc = "done" THEN 0 ELSE api_blocked
                /\ UNCHANGED stream_cache
    /\ UNCHANGED <<now, api_started, cacheVars, callerVars, limiterVars, serviceVars, selectVars, auxVars>>

\* the caller has the value; the slot is free again
ApiReply(r) ==
    /\ api_blocked = 0
    /\ api_req[r].pc = "done"
    /\ api_req' = [api_req EXCEPT ![r] = ApiIdle]
    /\ UNCHANGED <<now, stream_cache, api_blocked, api_started, cacheVars, callerVars,
                   limiterVars, serviceVars, selectVars, auxVars>>

ApiClock ==
    /\ now + ApiTick <= ApiTicks * ApiTick
    /\ now' = now + ApiTick
    /\ UNCHANGED <<cacheVars, callerVars, limiterVars, serviceVars, selectVars, apiVars, auxVars>>

InitApiObj ==
    /\ stream_cache = <<>>
    /\ api_req = [r \in ApiReqSet |-> ApiIdle]
    /\ api_blocked = 0
    /\ api_started = 0

(***************************************************************************)
(* Identifier extraction, on the text of the input.  A text is a string;   *)
(* the regular expressions are the searches below.  The inputs carry no    *)
(* fragment, port, credentials or percent escapes.                         *)
(***************************************************************************)
ID_LEN == 11

Lower == {"a", "b", "c", "d", "e", "f", "g", "h", "i", "j", "k", "l", "m", "n", "o",
          "p", "q", "r", "s", "t", "u", "v", "w", "x", "y", "z"}
Upper == {"A", "B", "C", "D", "E", "F", "G", "H", "I", "J", "K", "L", "M", "N", "O",
          "P", "Q", "R", "S", "T", "U", "V", "W", "X", "Y", "Z"}
Digits == {"0", "1", "2", "3", "4", "5", "6", "7", "8", "9"}
\* [\w-] of utils.py and [a-zA-Z0-9_-] of api.py, on ASCII text
IdChars == Lower \cup Upper \cup Digits \cup {"_", "-"}

Char(s, i) == SubSeq(s, i, i)
MinOf(S) == CHOOSE i \in S : \A j \in S : i <= j

\* the literal lit stands in s at position i
StartsAt(s, i, lit) == i + Len(lit) - 1 <= Len(s) /\ SubSeq(s, i, i + Len(lit) - 1) = lit
\* n identifier characters stand in s from position i
RunAt(s, i, n) == i + n - 1 <= Len(s) /\ \A j \in i..(i + n - 1) : Char(s, j) \in IdChars
\* the first position of lit in s at or after from, or 0
IndexOf(s, lit, from) ==
    LET hits == {i \in from..Len(s) : StartsAt(s, i, lit)}
    IN IF hits = {} THEN 0 ELSE MinOf(hits)
Contains(s, lit) == IndexOf(s, lit, 1) # 0

\* re.search(r'(?:l1|l2|..)([\w-]{11})tail', s): the group of the leftmost
\* match, the alternatives tried in order at each position
Search(s, lits, tail) ==
    LET alt(i) == {k \in 1..Len(lits) :
                     /\ StartsAt(s, i, lits[k])
                     /\ RunAt(s, i + Len(lits[k]), ID_LEN)
                     /\ StartsAt(s, i + Len(lits[k]) + ID_LEN, tail)}
        pos == {i \in 1..Len(s) : alt(i) # {}}
    IN IF pos = {} THEN None
       ELSE LET i == MinOf(pos)
                g == i + Len(lits[MinOf(alt(i))])
            IN Some(SubSeq(s, g, g + ID_LEN - 1))

\* the first of the searches that matches
FirstMatch(s, patterns) ==
    LET hits == {k \in 1..Len(patterns) : Search(s, patterns[k][1], patterns[k][2]) # None}
    IN IF hits = {} THEN None
       ELSE LET p == patterns[MinOf(hits)] IN Search(s, p[1], p[2])

\* the end of the part of s that starts at from and stops before any of stops
PartEnd(s, from, stops) ==
    LET hits == {i \in from..Len(s) : Char(s, i) \in stops}
    IN IF hits = {} THEN Len(s) ELSE MinOf(hits) - 1

\* urlparse(url).hostname: the text between "//" after the scheme and the path
Hostname(url) ==
    LET c == IndexOf(url, ":", 1)
    IN IF c # 0 /\ StartsAt(url, c + 1, "//")
       THEN Some(SubSeq(url, c + 3, PartEnd(url, c + 3, {"/", "?"})))
       ELSE None

\* urlparse(url).query
Query(url) ==
    LET q == IndexOf(url, "?", 1)
    IN IF q = 0 THEN "" ELSE SubSeq(url, q + 1, Len(url))

\* parse_qs(query).get('v'): the first pair named v with a value
QueryV(query) ==
    LET hits == {p \in 1..Len(query) :
                   /\ p = 1 \/ Char(query, p - 1) = "&"
                   /\ StartsAt(query, p, "v=")
                   /\ p + 2 <= Len(query)
                   /\ Char(query, p + 2) # "&"}
    IN IF hits = {} THEN None
       ELSE LET p == MinOf(hits)
            IN Some(SubSeq(query, p + 2, PartEnd(query, p + 2, {"&"})))

\* YouTubeUtils.extract_video_id
YouTubeUtils_extract_video_id(url) ==
    LET patterns == << <<<<"v=", "/">>, "">>, <<<<"embed/">>, "">>, <<<<"shorts/">>, "">>,
                       <<<<"live/">>, "">>, <<<<"youtu.be/">>, "">>, <<<<"/">>, "?">> >>
        match == FirstMatch(url, patterns)
        host == Hostname(url)
    IN IF match # None THEN match
       ELSE IF host # None /\ (Contains(host[1], "youtube.com") \/ Contains(host[1], "youtu.be"))
            THEN QueryV(Query(url))
            ELSE None

\* api.extract_video_id
Api_extract_video_id(url_or_id) ==
    LET patterns == << <<<<"youtube.com/watch?v=", "youtu.be/">>, "">>, <<<<"v=">>, "">>,
                       <<<<"embed/">>, "">>, <<<<"youtube.com/v/">>, "">> >>
        match == FirstMatch(url_or_id, patterns)
    IN IF Len(url_or_id) = ID_LEN /\ RunAt(url_or_id, 1, ID_LEN) THEN Some(url_or_id)
       ELSE IF match # None THEN match
       ELSE Some(url_or_id)

\* the inputs: something before, an identifier or a shorter word, something after
Prefixes == {"", "v=", "https://www.youtube.com/watch?v=", "https://youtu.be/",
             "https://www.youtube.com/embed/", "https://www.youtube.com/watch?list=PL1&v=",
             "https://example.com/watch?v="}
Bodies == {"dQw4w9WgXcQ", "a-b_c-D_e-9", "abcde"}
Suffixes == {"", "&t=1", "?t=1", "Z"}
ExtractFns == {"utils", "api"}

NoExtraction == [fn |-> "", input |-> "", done |-> FALSE, out |-> None]

\* one call of either extract_video_id
Extract ==
    /\ ~extraction.done
    /\ extraction' = [extraction EXCEPT !.done = TRUE,
                         !.out = IF extraction.fn = "utils"
                                 THEN YouTubeUtils_extract_video_id(extraction.input)
                                 ELSE Api_extract_video_id(extraction.input)]
    /\ UNCHANGED <<now, cacheVars, callerVars, limiterVars, serviceVars, selectVars, apiVars,
                   gateVars, optionVars>>

InitExtraction == extraction = NoExtraction

(***************************************************************************)
(* Building the engine's options.  config.YTDLP_DEFAULT_OPTS is one dict   *)
(* shared by every call; its value under 'extractor_args' is a dict whose  *)
(* value under 'youtube' is a dict again.  dict.copy() copies the top      *)
(* level only: the copy's 'extractor_args' is the shared object.  The      *)
(* model keeps the top-level keys the function writes and three it does    *)
(* not, and the nested 'youtube' dict; every value is text or a list.      *)
(***************************************************************************)
YTDLP_DEFAULT_OPTS ==
    [top |-> << [k |-> "quiet", v |-> "True"],
                [k |-> "retries", v |-> "5"],
                [k |-> "concurrent_fragment_downloads", v |-> "2"],
                [k |-> "geo_bypass", v |-> "True"] >>,
     youtube |-> << [k |-> "player_client", v |-> <<"android", "web", "ios">>],
                    [k |-> "player_skip", v |-> <<"configs", "webpage">>] >>]

\* dict.update(other): other's pairs, in order
RECURSIVE DictUpdate(_, _)
DictUpdate(d, other) ==
    IF other = <<>> THEN d
    ELSE DictUpdate(DictPut(d, Head(other).k, Head(other).v), Tail(other))

OptQualitySet == {"low", "medium", "high", "best", "4k", "720p"}

\* quality_map.get(quality, quality_map["best"])
QualityFormat(quality) ==
    CASE quality = "low" -> "best[height<=360][filesize<50M]"
      [] quality = "medium" -> "best[height<=480][filesize<100M]"
      [] quality = "high" -> "best[height<=720][filesize<200M]"
      [] quality = "4k" -> "best[height<=2160][filesize<1G]/best[height<=1440]/best"
      [] OTHER -> "best[height<=1080][filesize<500M]/best[height<=720]/best"

\* YouTubeDownloader.get_ydl_options run against the shared dict cfg:
\* [opts |-> the dict it returns, cfg |-> the shared dict after the call]
YouTubeDownloader_get_ydl_options(cfg, video_type, quality, use_cookies) ==
    LET copied == cfg.top
        o1 == IF use_cookies /\ COOKIES_CONFIGURED
              THEN DictPut(copied, "cookiefile", "cookies.txt") ELSE copied
        o2 == IF PROXY_CONFIGURED THEN DictPut(o1, "proxy", "proxy") ELSE o1
        o3 == IF video_type = "audio"
              THEN DictPut(DictPut(o2, "format",
                       "bestaudio[ext=m4a]/bestaudio[ext=webm]/bestaudio[ext=opus]/bestaudio/best"),
                       "postprocessors", "[]")
              ELSE IF video_type = "video"
              THEN DictPut(o2, "format", QualityFormat(quality))
              ELSE o2
        youtube == IF video_type = "audio"
                   THEN DictUpdate(cfg.youtube,
                            << [k |-> "player_client",
                                v |-> <<"android", "ios", "web", "tvhtml5_simple">>],
                               [k |-> "player_skip", v |-> <<"configs", "webpage", "js">>],
                               [k |-> "skip", v |-> <<"hls", "dash">>] >>)
                   ELSE cfg.youtube
        o4 == DictUpdate(o3, << [k |-> "concurrent_fragment_downloads", v |-> "2"],
                                [k |-> "http_chunk_size", v |-> "1048576"],
                                [k |-> "no_resize_buffer", v |-> "True"],
                                [k |-> "no_part", v |-> "True"] >>)
    IN [opts |-> [top |-> o4, youtube |-> youtube],
        cfg |-> [top |-> cfg.top, youtube |-> youtube]]

NoOptions ==
    [cfg |-> YTDLP_DEFAULT_OPTS, builds |-> 0,
     args |-> [video_type |-> "", quality |-> "", use_cookies |-> FALSE],
     built |-> [top |-> <<>>, youtube |-> <<>>]]

\* one call of get_ydl_options (_extract_info_sync makes one per engine attempt)
BuildOptions(video_type, quality, use_cookies) ==
    /\ options.builds < MaxBuilds
    /\ LET b == YouTubeDownloader_get_ydl_options(options.cfg, video_type, quality, use_cookies)
       IN options' = [cfg |-> b.cfg, builds |-> options.builds + 1,
                      args |-> [video_type |-> video_type, quality |-> quality,
                                use_cookies |-> use_cookies],
                      built |-> b.opts]
    /\ UNCHANGED <<now, cacheVars, callerVars, limiterVars, serviceVars, selectVars, apiVars,
                   extractVars, gateVars>>

InitOptions == options = NoOptions

\* the front door of main.py before any request
NoGate == [calls |-> {}, open |-> {},
           last |-> [via |-> "", status |-> 0, resolved |-> FALSE]]

InitGate == gate = NoGate

\* every object of the pure functions and of the front door, untouched
InitAux ==
    /\ InitExtraction
    /\ InitGate
    /\ InitOptions

(***************************************************************************)
(* Callers of one Cache object: any interleaving of get, set, delete and   *)
(* clear, with the clock advancing between calls.                          *)
(***************************************************************************)
\* the keys the callers use: one more than the cache holds
KeySet == {1, 2, 3}
\* (value, size) arguments of set: size 0 asks set to measure the value itself
SetArgs == {<<1, 0>>, <<2, 2>>}

\* the history variables after a call that leaves the object obj
BornAfter(obj, key, t) ==
    [j \in DOMAIN born |->
        IF ~DictHas(obj.cache, j) THEN Never ELSE IF j = key THEN t ELSE born[j]]
HeldAfter(obj, key, value) ==
    [j \in DOMAIN held |->
        IF ~DictHas(obj.cache, j) THEN 0 ELSE IF j = key THEN value ELSE held[j]]
TouchedAfter(obj, key, t) ==
    [j \in DOMAIN touched |->
        IF ~DictHas(obj.cache, j) THEN Never ELSE IF j = key THEN t ELSE touched[j]]

\* seconds since t, for a time t that was recorded
Since(t) == IF t = Never THEN Never ELSE now - t

\* the keys whose last access is oldest among the stored ones
LeastRecent ==
    {k \in DictKeys(cache) : \A j \in DictKeys(cache) : touched[k] <= touched[j]}

\* the keys whose entry was stored first among the stored ones
FirstIn ==
    {k \in DictKeys(cache) : \A j \in DictKeys(cache) : born[k] <= born[j]}

\* ret: the call, what it returned, and what the histories said when it was made:
\* age and idle are the seconds since the key's entry was stored and last accessed;
\* a set also reports the keys it evicted and the LeastRecent and FirstIn it found.
NoCall == [op |-> "none", key |-> 0, value |-> None, age |-> Never, idle |-> Never,
           evicted |-> {}, oldest |-> {}, firstin |-> {}]

CallerGet(key) ==
    /\ ~set_hung /\ calls < MaxCalls
    /\ LET r == Cache_get(CacheObj, key, now) IN
       /\ Install(r.obj)
       /\ ret' = [NoCall EXCEPT !.op = "get", !.key = key, !.value = r.value,
                                !.age = Since(born[key]), !.idle = Since(touched[key])]
       /\ born' = BornAfter(r.obj, 0, now)
       /\ held' = HeldAfter(r.obj, 0, 0)
       /\ touched' = IF r.value # None THEN TouchedAfter(r.obj, key, now)
                                       ELSE TouchedAfter(r.obj, 0, now)
    /\ calls' = calls + 1
    /\ UNCHANGED <<now, limiterVars, serviceVars, selectVars, apiVars, auxVars>>

CallerSet(key, value, size) ==
    /\ ~set_hung /\ calls < MaxCalls
    /\ LET obj == Cache_set(CacheObj, key, value, size, now) IN
       /\ Install(obj)
       /\ ret' = [NoCall EXCEPT !.op = "set", !.key = key, !.age = Since(born[key]),
                                !.evicted = DictKeys(cache) \ DictKeys(obj.cache),
                                !.oldest = LeastRecent, !.firstin = FirstIn]
       /\ born' = BornAfter(obj, key, now)
       /\ held' = HeldAfter(obj, key, value)
       /\ touched' = TouchedAfter(obj, key, now)
    /\ calls' = calls + 1
    /\ UNCHANGED <<now, limiterVars, serviceVars, selectVars, apiVars, auxVars>>

CallerDelete(key) ==
    /\ ~set_hung /\ calls < MaxCalls
    /\ LET obj == Cache_delete(CacheObj, key) IN
       /\ Install(obj)
       /\ ret' = [NoCall EXCEPT !.op = "delete", !.key = key]
       /\ born' = BornAfter(obj, 0, now)
       /\ held' = HeldAfter(obj, 0, 0)
       /\ touched' = TouchedAfter(obj, 0, now)
    /\ calls' = calls + 1
    /\ UNCHANGED <<now, limiterVars, serviceVars, selectVars, apiVars, auxVars>>

CallerClear ==
    /\ ~set_hung /\ calls < MaxCalls
    /\ LET obj == Cache_clear(CacheObj) IN
       /\ Install(obj)
       /\ ret' = [NoCall EXCEPT !.op = "clear"]
       /\ born' = BornAfter(obj, 0, now)
       /\ held' = HeldAfter(obj, 0, 0)
       /\ touched' = TouchedAfter(obj, 0, now)
    /\ calls' = calls + 1
    /\ UNCHANGED <<now, limiterVars, serviceVars, selectVars, apiVars, auxVars>>

CacheClock ==
    /\ now + CacheTick <= CacheTicks * CacheTick
    /\ now' = now + CacheTick
    /\ UNCHANGED <<cacheVars, callerVars, limiterVars, serviceVars, selectVars, apiVars, auxVars>>

\* the objects the module creates when it is loaded (Global instances)
InitCacheObj ==
    /\ cache = CacheInit.cache
    /\ access_times = CacheInit.access_times
    /\ cache_stats = CacheInit.stats
    /\ set_hung = CacheInit.hung
InitCallers ==
    /\ ret = NoCall
    /\ calls = 0
    /\ born = [j \in KeySet |-> Never]
    /\ held = [j \in KeySet |-> 0]
    /\ touched = [j \in KeySet |-> Never]

InitCache ==
    /\ now = 0
    /\ InitCacheObj
    /\ InitCallers
    /\ InitLimiterObj
    /\ verdict = [client |-> "", ok |-> FALSE, recent |-> 0]
    /\ admitted = <<>>
    /\ InitServiceObj
    /\ InitPicked
    /\ InitApiObj
    /\ InitAux

NextCache ==
    \/ \E key \in KeySet : CallerGet(key)
    \/ \E key \in KeySet, a \in SetArgs : CallerSet(key, a[1], a[2])
    \/ \E key \in KeySet : CallerDelete(key)
    \/ CallerClear
    \/ CacheClock

SpecCache == InitCache /\ [][NextCache]_vars

(***************************************************************************)
(* Clients of one RateLimiter object: check_limit calls of several         *)
(* clients in any order, with the clock advancing between calls.           *)
(***************************************************************************)
ClientSet == {"10.0.0.1", "10.0.0.2"}

\* the number of times in the sequence ts that are newer than now - 60 s
RECURSIVE NewerThanWindow(_)
NewerThanWindow(ts) ==
    IF ts = <<>> THEN 0
    ELSE (IF Head(ts) > now - WINDOW THEN 1 ELSE 0) + NewerThanWindow(Tail(ts))

NoVerdict == [client |-> "", ok |-> FALSE, recent |-> 0]

ClientCheck(client_ip) ==
    /\ limiter_stats.blocked_requests < MaxBlocked
    /\ LET r == RateLimiter_check_limit(LimiterObj, client_ip, now) IN
       /\ requests' = r.obj.requests
       /\ limiter_stats' = r.obj.stats
       /\ verdict' = [client |-> client_ip, ok |-> r.ok,
                      recent |-> NewerThanWindow(admitted[client_ip])]
       /\ admitted' = IF r.ok THEN [admitted EXCEPT ![client_ip] = Append(@, now)]
                              ELSE admitted
    /\ UNCHANGED <<now, cacheVars, callerVars, serviceVars, selectVars, apiVars, auxVars>>

LimiterClock ==
    /\ now + LimiterTick <= LimiterTicks * LimiterTick
    /\ now' = now + LimiterTick
    /\ UNCHANGED <<cacheVars, callerVars, limiterVars, serviceVars, selectVars, apiVars, auxVars>>

InitLimiter ==
    /\ now = 0
    /\ InitCacheObj
    /\ InitCallers
    /\ InitLimiterObj
    /\ verdict = NoVerdict
    /\ admitted = [c \in ClientSet |-> <<>>]
    /\ InitServiceObj
    /\ InitPicked
    /\ InitApiObj
    /\ InitAux

NextLimiter ==
    \/ \E client_ip \in ClientSet : ClientCheck(client_ip)
    \/ LimiterClock

SpecLimiter == InitLimiter /\ [][NextLimiter]_vars

(***************************************************************************)
(* The service: requests arrive, the pool threads run the engine, the      *)
(* event loop resumes the handlers.                                        *)
(***************************************************************************)
Init ==
    /\ now = 0
    /\ InitCacheObj
    /\ InitCallers
    /\ InitLimiterObj
    /\ verdict = NoVerdict
    /\ admitted = <<>>
    /\ InitServiceObj
    /\ InitPicked
    /\ InitApiObj
    /\ InitAux

Next ==
    \/ \E r \in ReqSet, url \in UrlSet, video_type \in TypeSet, quality \in QualitySet :
           StartResolve(r, url, video_type, quality)
    \/ \E r \in ReqSet, url \in UrlSet, detailed \in BOOLEAN, force_refresh \in BOOLEAN :
           StartInfo(r, url, detailed, force_refresh)
    \/ \E r \in ReqSet, url \in UrlSet : StartFormats(r, url)
    \/ \E r \in ReqSet, script \in Scripts : WorkerExtract(r, script)
    \/ \E r \in ReqSet : FinishResolve(r)
    \/ \E r \in ReqSet, outcome \in EngineOutcomes : WorkerWith(r, outcome)
    \/ \E r \in ReqSet : ExitWith(r)
    \/ \E r \in ReqSet : JoinWith(r)
    \/ \E r \in ReqSet : Reply(r)
    \/ ServiceClock

Spec == Init /\ [][Next]_vars

(***************************************************************************)
(* The /stream/audio and /stream/video handlers over the resolver: their   *)
(* requests and direct resolves arrive, the pool threads run the engine,   *)
(* the event loop resumes the handlers.                                    *)
(***************************************************************************)
\* the engine either returns the first candidate list or raises
StreamScripts == {<<1, NoInfo>>, <<Raises, 1>>}

NextStream ==
    \/ \E r \in ReqSet, url \in UrlSet, video_type \in TypeSet, quality \in QualitySet,
          force_refresh \in BOOLEAN :
           StartStream(r, url, video_type, quality, force_refresh)
    \/ \E r \in ReqSet, url \in UrlSet, video_type \in TypeSet, quality \in QualitySet :
           StartResolve(r, url, video_type, quality)
    \/ \E r \in ReqSet, script \in StreamScripts : WorkerExtract(r, script)
    \/ \E r \in ReqSet : FinishResolve(r)
    \/ \E r \in ReqSet : Reply(r)
    \/ ServiceClock

SpecStream == Init /\ [][NextStream]_vars

(***************************************************************************)
(* The format selection applied to every candidate list, kind and tier.    *)
(***************************************************************************)
InitSelect ==
    /\ now = 0
    /\ InitCacheObj
    /\ InitCallers
    /\ InitLimiterObj
    /\ verdict = NoVerdict
    /\ admitted = <<>>
    /\ InitServiceObj
    /\ InitApiObj
    /\ InitAux
    /\ \E formats \in FormatLists, video_type \in TypeSet, quality \in TierSet :
           picked = [NoPick EXCEPT !.formats = formats, !.video_type = video_type,
                                   !.quality = quality]

NextSelect == Select

SpecSelect == InitSelect /\ [][NextSelect]_vars

(***************************************************************************)
(* api.py: get_stream_url calls arrive, each engine call returns in turn.  *)
(***************************************************************************)
InitApi ==
    /\ now = 0
    /\ InitCacheObj
    /\ InitCallers
    /\ InitLimiterObj
    /\ verdict = NoVerdict
    /\ admitted = <<>>
    /\ InitServiceObj
    /\ InitPicked
    /\ InitApiObj
    /\ InitAux

NextApi ==
    \/ \E r \in ApiReqSet, url \in ApiUrlSet, media_type \in TypeSet, quality \in ApiQualitySet :
           ApiStart(r, url, media_type, quality)
    \/ \E r \in ApiReqSet, outcome \in {"url", "empty", "raise"} : ApiEngine(r, outcome)
    \/ \E r \in ApiReqSet : ApiReply(r)
    \/ ApiClock

SpecApi == InitApi /\ [][NextApi]_vars

(***************************************************************************)
(* The front door of main.py: rate_limit_middleware before every HTTP      *)
(* handler, and the /ws websocket, whose messages are served by            *)
(* websocket_endpoint itself.  The resolver is seen from outside: a call   *)
(* of downloader.get_stream_info is logged with the client it serves.      *)
(***************************************************************************)
\* YouTubeUtils.is_valid_youtube_url on lower-case text: the first pattern,
\* which holds every other but the music. and m. hosts
YouTubeUtils_is_valid_youtube_url(url) ==
    LET afterScheme == IF StartsAt(url, 1, "https://") THEN 9
                       ELSE IF StartsAt(url, 1, "http://") THEN 8 ELSE 1
        afterWww == IF StartsAt(url, afterScheme, "www.") THEN afterScheme + 4 ELSE afterScheme
        sub(h) == /\ afterScheme > 1
                  /\ StartsAt(url, afterWww, h \o "youtube.com/watch?v=")
                  /\ RunAt(url, afterWww + Len(h) + 20, ID_LEN)
    IN \/ \E h \in {"youtube.com/", "youtu.be/"} :
              StartsAt(url, afterWww, h) /\ Len(url) >= afterWww + Len(h)
       \/ sub("music.") \/ sub("m.")

GateUrls == {"https://m.youtube.com/watch?v=dQw4w9WgXcQ", "youtube.com/watch?v=dQw4w9WgXcQ",
             "not a video"}
\* paths whose handlers call the resolver, and one that does not
GatePaths == {"/stream/audio", "/health"}
\* messages a websocket client sends
WsMessages ==
    {"ping"} \cup {c \o u : c \in {"info:", "stream:audio:"}, u \in GateUrls}
             \cup {"stream:video:" \o u \o q : u \in GateUrls, q \in {"", ":best"}}

\* the URLs above that is_valid_youtube_url accepts
GateValidUrls == {url \in GateUrls : YouTubeUtils_is_valid_youtube_url(url)}

\* the log after a call of the resolver for client_ip
Resolved(client_ip, via, resolved) ==
    IF resolved THEN gate.calls \cup {[client |-> client_ip, via |-> via]} ELSE gate.calls

\* one HTTP request through rate_limit_middleware and, when admitted, its
\* handler; hit: the handler's own cache answers (main.py:908-919)
HttpRequest(client_ip, path, url, hit) ==
    /\ limiter_stats.total_requests + limiter_stats.blocked_requests < MaxGateRequests
    /\ LET r == RateLimiter_check_limit(LimiterObj, client_ip, now)
           status == IF ~r.ok THEN 429
                     ELSE IF path = "/stream/audio" /\ url \notin GateValidUrls
                          THEN 400 ELSE 200
           resolved == r.ok /\ path = "/stream/audio" /\ status = 200 /\ ~hit
       IN /\ requests' = r.obj.requests
          /\ limiter_stats' = r.obj.stats
          /\ verdict' = [client |-> client_ip, ok |-> r.ok,
                         recent |-> NewerThanWindow(admitted[client_ip])]
          /\ admitted' = IF r.ok THEN [admitted EXCEPT ![client_ip] = Append(@, now)]
                                 ELSE admitted
          /\ gate' = [gate EXCEPT !.calls = Resolved(client_ip, "http", resolved),
                          !.last = [via |-> "http", status |-> status, resolved |-> resolved]]
    /\ UNCHANGED <<now, cacheVars, callerVars, serviceVars, selectVars, apiVars, extractVars,
                   optionVars>>

\* websocket_endpoint up to its receive loop: the connection is accepted
WsConnect(client_ip) ==
    /\ client_ip \notin gate.open
    /\ gate' = [gate EXCEPT !.open = @ \cup {client_ip}]
    /\ UNCHANGED <<now, cacheVars, callerVars, limiterVars, serviceVars, selectVars, apiVars,
                   extractVars, optionVars>>

\* what one message makes websocket_endpoint do: TRUE when it calls the resolver
WsResolves(data) ==
    LET rest == SubSeq(data, 14, Len(data))
        colon == IndexOf(rest, ":", 1)
    IN IF data = "ping" THEN FALSE
       ELSE IF StartsAt(data, 1, "info:")
            THEN YouTubeUtils_is_valid_youtube_url(SubSeq(data, 6, Len(data)))
       ELSE IF StartsAt(data, 1, "stream:audio:")
            THEN YouTubeUtils_is_valid_youtube_url(rest)
       ELSE IF StartsAt(data, 1, "stream:video:")
            THEN colon # 0 /\ YouTubeUtils_is_valid_youtube_url(SubSeq(rest, 1, colon - 1))
       ELSE FALSE

\* the messages above, sorted once by what the code does with them
WsResolving == {data \in WsMessages : WsResolves(data)}

\* one turn of the receive loop of websocket_endpoint
WsMessage(client_ip, data) ==
    /\ client_ip \in gate.open
    /\ gate' = [gate EXCEPT !.calls = Resolved(client_ip, "ws", data \in WsResolving),
                    !.last = [via |-> "ws", status |-> 0, resolved |-> data \in WsResolving]]
    /\ UNCHANGED <<now, cacheVars, callerVars, limiterVars, serviceVars, selectVars, apiVars,
                   extractVars, optionVars>>

GateClock ==
    /\ now + GateTick <= GateTicks * GateTick
    /\ now' = now + GateTick
    /\ UNCHANGED <<cacheVars, callerVars, limiterVars, serviceVars, selectVars, apiVars, auxVars>>

(***************************************************************************)
(* The objects no request has touched yet.                                 *)
(***************************************************************************)
InitRest ==
    /\ now = 0
    /\ InitCacheObj
    /\ InitCallers
    /\ InitLimiterObj
    /\ verdict = NoVerdict
    /\ admitted = <<>>
    /\ InitServiceObj
    /\ InitPicked
    /\ InitApiObj

(***************************************************************************)
(* Both extract_video_id functions applied to every input.                 *)
(***************************************************************************)
InitExtract ==
    /\ InitRest
    /\ InitGate
    /\ InitOptions
    /\ \E fn \in ExtractFns, pre \in Prefixes, body \in Bodies, suf \in Suffixes :
           extraction = [NoExtraction EXCEPT !.fn = fn, !.input = pre \o body \o suf]

NextExtract == Extract

SpecExtract == InitExtract /\ [][NextExtract]_vars

(***************************************************************************)
(* The front door: HTTP requests and websocket messages of every client.   *)
(***************************************************************************)
InitFrontDoor ==
    /\ now = 0
    /\ InitCacheObj
    /\ InitCallers
    /\ InitLimiterObj
    /\ verdict = NoVerdict
    /\ admitted = [c \in ClientSet |-> <<>>]
    /\ InitServiceObj
    /\ InitPicked
    /\ InitApiObj
    /\ InitExtraction
    /\ InitGate
    /\ InitOptions

NextFrontDoor ==
    \/ \E client_ip \in ClientSet, path \in GatePaths, url \in GateUrls, hit \in BOOLEAN :
           HttpRequest(client_ip, path, url, hit)
    \/ \E client_ip \in ClientSet : WsConnect(client_ip)
    \/ \E client_ip \in ClientSet, data \in WsMessages : WsMessage(client_ip, data)
    \/ GateClock

SpecFrontDoor == InitFrontDoor /\ [][NextFrontDoor]_vars

(***************************************************************************)
(* api.py: get_stream_url calls made one after the other.                  *)
(***************************************************************************)
NextAttempts ==
    \/ \E url \in ApiUrlSet, media_type \in TypeSet, quality \in ApiQualitySet :
           ApiStart(1, url, media_type, quality)
    \/ \E outcome \in {"url", "empty", "raise"} : ApiEngine(1, outcome)
    \/ ApiReply(1)

SpecAttempts == InitApi /\ [][NextAttempts]_vars

(***************************************************************************)
(* get_ydl_options called again and again on the one shared configuration. *)
(***************************************************************************)
InitOptionsSpec ==
    /\ InitRest
    /\ InitAux

NextOptions ==
    \E video_type \in TypeSet, quality \in OptQualitySet, use_cookies \in BOOLEAN :
        BuildOptions(video_type, quality, use_cookies)

SpecOptions == InitOptionsSpec /\ [][NextOptions]_vars

(***************************************************************************)
(* /stream requests for one video over more than one TTL.                  *)
(***************************************************************************)
StaleUrl == [shape |-> "watch", id |-> "v1"]

NextStale ==
    \/ \E r \in ReqSet, quality \in QualitySet, force_refresh \in BOOLEAN :
           StartStale(r, StaleUrl, "audio", quality, force_refresh)
    \/ \E r \in ReqSet : WorkerExtract(r, <<1, NoInfo>>)
    \/ \E r \in ReqSet : FinishResolve(r)
    \/ \E r \in ReqSet : Reply(r)
    \/ StaleClock

SpecStale == Init /\ [][NextStale]_vars

(***************************************************************************)
(* Claims about the Cache, checked under SpecCache.                        *)
(***************************************************************************)

\* C1: in every reachable state of the Cache, whatever the interleaving of get,
\* set, delete and clear, the number of stored entries is at most MAX_CACHE_SIZE.
C1_SizeBounded == Len(cache) <= MAX_CACHE_SIZE

\* a set into a full cache has evicted an entry and left the cache full
C1_Witness ==
    /\ ret.op = "set" /\ ret.evicted # {}
    /\ Len(cache) = MAX_CACHE_SIZE

\* C2: get returns the stored value exactly when the key's entry exists and is
\* younger than CACHE_TTL; otherwise it returns None, and a stale entry is
\* removed, so that it no longer counts in the size reported afterwards.
C2_GetFreshOrGone ==
    ret.op = "get" =>
        /\ (ret.value # None) <=> (ret.age # Never /\ ret.age < CACHE_TTL)
        /\ ret.value # None => ret.value = Some(held[ret.key])
        /\ ret.value = None =>
              /\ ~DictHas(cache, ret.key)
              /\ Len(cache) = Cardinality({k \in KeySet : born[k] # Never})

\* a get of an entry aged exactly CACHE_TTL returned None
C2_Witness == ret.op = "get" /\ ret.value = None /\ ret.age = CACHE_TTL

\* C3: a set that evicts removes one entry, one whose last access (its set or
\* its latest successful get) is oldest among the stored ones; when it stores
\* a new key into a full cache the cache is full afterwards.
C3_EvictsLeastRecent ==
    ret.op = "set" =>
        /\ ret.evicted \subseteq ret.oldest
        /\ Cardinality(ret.evicted) <= 1
        /\ (ret.evicted # {} /\ ret.age = Never) => Len(cache) = MAX_CACHE_SIZE

\* a set evicted an entry that was not the first stored: a get had refreshed the
\* older one
C3_Witness ==
    /\ ret.op = "set" /\ ret.evicted # {}
    /\ ret.evicted \cap ret.firstin = {}

\* C4: expiry is absolute.  The timestamp stored with an entry stays the time
\* of the set that stored it, whatever gets hit it, and no get returns an entry
\* CACHE_TTL or more after that set.
C4_AbsoluteExpiry ==
    /\ \A k \in DictKeys(cache) : DictGet(cache, k).ts = born[k]
    /\ (ret.op = "get" /\ ret.value # None) => ret.age < CACHE_TTL

\* a get found its entry expired although a get had hit it less than CACHE_TTL ago
C4_Witness ==
    /\ ret.op = "get" /\ ret.value = None
    /\ ret.age # Never /\ ret.age >= CACHE_TTL
    /\ ret.idle # Never /\ ret.idle < CACHE_TTL

\* C5 (as claimed): after clear() the cache is empty and hits, misses,
\* evictions and size_bytes are all zero.
C5_ClearResetsAll ==
    ret.op = "clear" =>
        /\ Len(cache) = 0
        /\ cache_stats.hits = 0 /\ cache_stats.misses = 0
        /\ cache_stats.evictions = 0 /\ cache_stats.size_bytes = 0

(***************************************************************************)
(* Claims about the RateLimiter, checked under SpecLimiter.                *)
(***************************************************************************)

Extracted(r) == req[r].pc \in {"extracted", "done"} /\ Len(req[r].script) = 2

\* C7 (as claimed): when the engine raises on the first, with-credentials
\* invocation and would return metadata on a second one, the resolver makes
\* that second invocation and returns a success (stated for audio, where the
\* second invocation's candidates hold an audio format).
C7_RetryAfterRaise ==
    \A r \in ReqSet :
        (Extracted(r) /\ req[r].video_type = "audio" /\ req[r].script = <<Raises, 1>>)
        => /\ req[r].result.status = "success"
           /\ Len(req[r].attempts) = 2

\* C8: when the first, with-credentials invocation returns no metadata the
\* resolver invokes the engine exactly once more, without the cookie file; no
\* resolve invokes it more than twice; when both return no metadata the result
\* is an error.
C8_SingleRetryNoCookies ==
    \A r \in ReqSet : Extracted(r) =>
        /\ Len(req[r].attempts) \in {1, 2}
        /\ req[r].attempts[1].opts.cookiefile = COOKIES_CONFIGURED
        /\ req[r].script[1] = NoInfo =>
              /\ Len(req[r].attempts) = 2
              /\ ~req[r].attempts[2].opts.cookiefile
        /\ req[r].script = <<NoInfo, NoInfo>> => req[r].result.status = "error"

\* a resolve whose first invocation returned nothing succeeded on the retry
C8_Witness ==
    \E r \in ReqSet :
        /\ Extracted(r) /\ req[r].script[1] = NoInfo
        /\ Len(req[r].attempts) = 2
        /\ req[r].result.status = "success"

\* C9 (as claimed): when the engine returns metadata and the selection finds a
\* candidate, the resolver returns a success with that candidate's stream URL
\* and stores it in the cache under the resolution key, for video as for audio.
C9_SuccessStored ==
    \A r \in ReqSet :
        (/\ Extracted(r) /\ req[r].pc = "done" /\ req[r].h = "resolve"
         /\ req[r].script[1] \in DOMAIN Catalogue
         /\ SelectFormat(Catalogue[req[r].script[1]], req[r].video_type,
                         req[r].quality).found = "yes")
        => /\ req[r].result.status = "success"
           /\ req[r].result.stream_url
                 = SelectFormat(Catalogue[req[r].script[1]], req[r].video_type,
                                req[r].quality).f.url
           /\ req[r].wrote = Some(req[r].key)

\* C10 (as claimed): the worker pool stays usable, so no resolve that misses
\* the cache is refused by the pool.
C10_PoolStaysUsable ==
    \A r \in ReqSet :
        ~(/\ req[r].pc = "done" /\ req[r].h = "resolve"
          /\ req[r].result.message = PoolShutDown)

(***************************************************************************)
(* Claims about the resolvers' inputs and their caches.                    *)
(***************************************************************************)

\* C11 (as claimed): a resolve whose input yields no content identifier
\* returns at once: no engine invocation is attempted for it and it writes
\* nothing to the cache.  Stated for get_stream_url of api.py.
C11_InvalidInputNoEngine ==
    \A r \in ApiReqSet :
        (api_req[r].pc # "idle" /\ api_req[r].url.shape = "junk")
        => /\ api_req[r].pc = "done"
           /\ api_req[r].invoked = 0
           /\ api_req[r].wrote = None

\* the requests that were answered from what the cache held, with no engine
\* invocation made for them
ServedWithoutEngine(r) ==
    /\ req[r].pc = "done" /\ req[r].h \in {"resolve", "stream"}
    /\ req[r].result.status = "success"
    /\ req[r].attempts = <<>>

\* C12 (as claimed): a resolve that repeats a successful one within the TTL is
\* answered with the stored payload and without an engine invocation, and every
\* result returned without an engine invocation is marked as served from cache.
C12_CacheServedMarked ==
    \A r \in ReqSet : ServedWithoutEngine(r) =>
        /\ req[r].result.stream_url # ""
        /\ req[r].result.cached

\* the keys get_stream_info and the /stream handlers store under
ResolutionKeys ==
    {u.id \o ":" \o t \o ":" \o q : u \in UrlSet, t \in TypeSet, q \in QualitySet}
    \cup {t \o ":" \o u.id \o ":" \o q : u \in UrlSet, t \in TypeSet, q \in QualitySet}

\* C13: failures are never cached.  Every value the cache holds under a
\* resolution key (stored by get_stream_info or by a /stream handler) has status
\* success and carries a stream URL, and no failure result carries a stream URL.
C13_FailuresNeverCached ==
    /\ \A i \in DOMAIN cache : cache[i].k \in ResolutionKeys =>
           /\ cache[i].v.value.status = "success"
           /\ cache[i].v.value.stream_url # ""
    /\ \A r \in ReqSet :
           req[r].result.status = "error" => req[r].result.stream_url = ""

\* a resolve whose engine call failed was answered while the cache held the
\* success of another one, and left nothing under its own keys
C13_Witness ==
    \E r \in ReqSet :
        /\ req[r].pc = "done" /\ req[r].h = "stream"
        /\ req[r].attempts # <<>> /\ req[r].result.status = "error"
        /\ req[r].wrote = None /\ req[r].hwrote = None
        /\ ~DictHas(cache, req[r].key) /\ ~DictHas(cache, req[r].hkey)
        /\ cache # <<>>

\* C14: the resolver never raises for expected conditions.  For every input,
\* every engine outcome (metadata, no metadata, exception) and every candidate
\* list, candidates with a null height included, what get_stream_info gives its
\* caller is a result whose status is success or error.
C14_ResolverNeverRaises ==
    \A r \in ReqSet :
        (req[r].pc \in {"extracted", "done"} /\ req[r].h = "resolve")
        => req[r].result.status \in {"success", "error"}

\* a video resolve at a tier with a ceiling met a candidate whose height is
\* None (the comparison raises TypeError) and still returned an error result
C14_Witness ==
    \E r \in ReqSet :
        /\ Extracted(r) /\ req[r].pc = "done" /\ req[r].h = "resolve"
        /\ req[r].script[1] \in DOMAIN Catalogue
        /\ SelectFormat(Catalogue[req[r].script[1]], req[r].video_type,
                        req[r].quality).found = "raise"
        /\ req[r].result.status = "error"

(***************************************************************************)
(* Claims about the format selection, checked under SpecSelect.            *)
(***************************************************************************)

\* the candidates of the list that was given to the selection
Given == {picked.formats[i] : i \in DOMAIN picked.formats}
WithinTier(f) ==
    \/ TierCeiling(picked.quality) = Absent
    \/ PyGet(f.height, 0) <= TierCeiling(picked.quality)

\* C15 (as claimed): for kind video the selection fails only when no candidate
\* carries a video stream; when every video candidate lies above the ceiling of
\* the requested tier it widens and returns the best one available.
C15_TierWidens ==
    (/\ picked.done /\ picked.video_type = "video"
     /\ VideoFormats(picked.formats) # <<>>
     /\ \A f \in Given : f.height # Null)
    => /\ picked.sel.found = "yes"
       /\ TierFormats(VideoFormats(picked.formats), picked.quality) = <<>>
             => picked.sel.f = FirstBest(VideoFormats(picked.formats), VideoKey)

\* C16 (as claimed): for kind audio the selection never returns a candidate
\* that lacks an audio codec, whatever mix of audio-only, video-only and muxed
\* candidates it is given, entries without an audio-codec field included.
C16_AudioHasAudioCodec ==
    (picked.done /\ picked.video_type = "audio" /\ picked.sel.found = "yes")
    => HasAudio(picked.sel.f)

\* C17 (as claimed): for kind video the selected candidate carries both a
\* video and an audio stream whenever such a muxed candidate is available
\* within the tier; a video-only candidate is chosen only when there is none.
C17_VideoPrefersMuxed ==
    (/\ picked.done /\ picked.video_type = "video" /\ picked.sel.found = "yes"
     /\ \E f \in Given : HasAudio(f) /\ HasVideo(f) /\ WithinTier(f))
    => HasAudio(picked.sel.f) /\ HasVideo(picked.sel.f)

\* C18 (as claimed): for kind audio an audio-only candidate is preferred to a
\* muxed one: given the 128 kbps m4a, the 70 kbps opus and one muxed candidate
\* of any bitrate, the selection returns the 128 kbps m4a.
C18_AudioPrefersAudioOnly ==
    (/\ picked.done /\ picked.video_type = "audio"
     /\ Len(picked.formats) = 3
     /\ \E m \in Pool : HasAudio(m) /\ HasVideo(m) /\ Given = {M4A128, OPUS70, m})
    => /\ picked.sel.found = "yes"
       /\ picked.sel.f = M4A128

(***************************************************************************)
(* Claims about get_stream_url of api.py, checked under SpecApi.           *)
(***************************************************************************)

\* C19 (as claimed): the engine never runs on the thread of the event loop:
\* while a resolve waits for the engine the event loop is free to start and
\* complete other requests.
C19_LoopFreeDuringEngine ==
    \A r \in ApiReqSet :
        api_req[r].pc \in {"direct", "proxy", "fallback"} => api_blocked = 0

\* C20 (as claimed): the cache key of a resolution is built from the extracted
\* identifier together with kind and tier, so that inputs denoting the same
\* identifier (bare identifier, watch URL) with the same kind and tier use the
\* same entry.
C20_KeyFromIdentifier ==
    \A r \in ApiReqSet :
        (api_req[r].pc # "idle" /\ api_req[r].url.shape # "junk")
        => api_req[r].cache_key
              = api_req[r].url.id \o ":" \o api_req[r].media_type \o ":" \o api_req[r].quality

(***************************************************************************)
(* Claims about identifier extraction, checked under SpecExtract.          *)
(***************************************************************************)
\* the text is a canonical identifier: 11 characters of [A-Za-z0-9_-]
Canonical(s) == Len(s) = ID_LEN /\ RunAt(s, 1, ID_LEN)

\* C21 (as claimed): extraction is idempotent on canonical identifiers: either
\* extract_video_id, given a canonical identifier, returns it unchanged.
C21_ExtractIdempotent ==
    (extraction.done /\ Canonical(extraction.input))
    => extraction.out = Some(extraction.input)

(***************************************************************************)
(* Claims about the front door, checked under SpecFrontDoor.               *)
(***************************************************************************)
\* a request the limiter rejected did not reach the resolver
RejectedStopsAtLimiter ==
    (gate.last.via = "http" /\ gate.last.status = 429) => ~gate.last.resolved

\* C22 (as claimed): a request the rate limiter rejects never reaches the
\* resolver, and every resolver call made for a client, over HTTP or over a
\* websocket command, comes after the limiter admitted a request of that client.
C22_ResolverBehindLimiter ==
    /\ RejectedStopsAtLimiter
    /\ \A c \in gate.calls : admitted[c.client] # <<>>

(***************************************************************************)
(* Claims about the /stream handlers, checked under SpecStream.            *)
(***************************************************************************)
\* C23 (as claimed): a /stream request with force_refresh=true bypasses the
\* cache: the result it serves comes from an engine invocation of its own,
\* never from an entry an earlier request left.
C23_ForceRefreshBypassesCache ==
    \A r \in ReqSet :
        (req[r].pc = "done" /\ req[r].h = "stream" /\ req[r].force /\ req[r].code = 302)
        => req[r].attempts # <<>>

(***************************************************************************)
(* Claims about concurrent resolves, checked under Spec.                   *)
(***************************************************************************)
\* C24: concurrent resolves of one key are not merged: each may miss the cache
\* and run the engine, and each successful one stores its result when it
\* resumes, so the entry under the key is the result of the resolve that wrote
\* last: right after a resolve has written, the cache holds its result.
C24_LastWriteWins ==
    [][\A r \in ReqSet :
          (req[r].pc = "extracted" /\ req'[r].pc # "extracted" /\ req'[r].wrote # None)
          => /\ DictHas(cache', req[r].key)
             /\ DictGet(cache', req[r].key).value = [req[r].result EXCEPT !.produced = now]
             /\ DictGet(cache', req[r].key).ts = now]_vars

\* two resolves of one key both missed the cache, both ran the engine and both
\* wrote; the entry is the result of the one that arrived first and wrote last
C24_Witness ==
    /\ req[1].pc = "done" /\ req[2].pc = "done"
    /\ req[1].key = req[2].key
    /\ req[1].attempts # <<>> /\ req[2].attempts # <<>>
    /\ req[1].wrote = Some(req[1].key) /\ req[2].wrote = Some(req[2].key)
    /\ req[1].result.oid # req[2].result.oid
    /\ DictHas(cache, req[1].key)
    /\ DictGet(cache, req[1].key).value.oid = req[1].result.oid

(***************************************************************************)
(* Claims about the status a handler answers with, checked under Spec.     *)
(***************************************************************************)
\* C25 (as claimed): an HTTPException raised inside a handler's try block
\* reaches the client with the status it was raised with: when the engine
\* returns no info, /formats answers 404.
C25_RaisedStatusReachesClient ==
    \A r \in ReqSet :
        (req[r].pc = "done" /\ req[r].h = "formats" /\ req[r].script = <<NoInfo>>)
        => req[r].code = 404

(***************************************************************************)
(* Claims about the attempts of get_stream_url, checked under SpecAttempts.*)
(***************************************************************************)
\* the attempts of request r so far, and the last of them
Tried(r) == api_req[r].tried
LastTried(r) == Tried(r)[Len(Tried(r))]

\* C26: get_stream_url makes its attempts in a fixed order and stops at the
\* first success: the direct attempt first, then each configured proxy at most
\* once, then the simplified-format fallback; an attempt that fails in any way
\* is followed by the next one; None is returned only after the direct attempt,
\* every proxy and the fallback have failed; a success is returned and written
\* to stream_cache under the request's key.
C26_AttemptsInOrder ==
    \A r \in ApiReqSet :
        LET t == Tried(r) IN
        /\ Len(t) <= NUM_PROXIES + 2
        /\ \A i \in DOMAIN t :
               /\ t[i].kind = (IF i = 1 THEN "direct"
                               ELSE IF i <= NUM_PROXIES + 1 THEN "proxy" ELSE "fallback")
               /\ t[i].kind = "proxy" => t[i].proxy \in ProxySet
               /\ \A j \in DOMAIN t : (j # i /\ t[i].kind = "proxy" /\ t[j].kind = "proxy")
                                       => t[i].proxy # t[j].proxy
               /\ t[i].ok => (i = Len(t) /\ api_req[r].pc = "done")
        /\ (api_req[r].pc = "done" /\ api_req[r].result = None)
           => (Len(t) = NUM_PROXIES + 2 /\ \A i \in DOMAIN t : ~t[i].ok)
        /\ (api_req[r].pc = "done" /\ t # <<>> /\ LastTried(r).ok)
           => /\ api_req[r].result # None
              /\ api_req[r].wrote = Some(api_req[r].cache_key)
              /\ DictHas(stream_cache, api_req[r].cache_key)
              /\ DictGet(stream_cache, api_req[r].cache_key).url = api_req[r].result[1]
        /\ (api_req[r].pc \in {"direct", "proxy", "fallback"})
           => /\ \A i \in DOMAIN t : ~t[i].ok
              /\ api_req[r].pc = (IF Len(t) = 0 THEN "direct"
                                  ELSE IF Len(t) <= NUM_PROXIES THEN "proxy" ELSE "fallback")

\* the direct attempt and both proxies failed, the second proxy tried before
\* the first, and the fallback gave the URL that was stored and returned
C26_Witness ==
    /\ api_req[1].pc = "done"
    /\ Len(Tried(1)) = NUM_PROXIES + 2
    /\ Tried(1)[2].proxy = 2
    /\ LastTried(1).kind = "fallback" /\ LastTried(1).ok
    /\ api_req[1].wrote = Some(api_req[1].cache_key)

(***************************************************************************)
(* Claims about the Cache's bookkeeping, checked under SpecCache.          *)
(***************************************************************************)
\* C27: between any two cache operations the key set of Cache.cache equals
\* the key set of Cache.access_times, so the eviction loop of set always finds
\* its victim in the cache and set always terminates.
C27_KeySetsAgree ==
    /\ DictKeys(cache) = DictKeys(access_times)
    /\ ~set_hung

\* a set found the cache full, evicted an entry and returned
C27_Witness ==
    /\ ret.op = "set"
    /\ ret.evicted # {}
    /\ cache_stats.evictions >= 1
    /\ Len(cache) = MAX_CACHE_SIZE

\* the sum of the size estimates of the entries the cache holds
RECURSIVE SumSizes(_)
SumSizes(d) == IF d = <<>> THEN 0 ELSE Head(d).v.size + SumSizes(Tail(d))

\* C28 (as claimed): after any sequence of get, set (overwriting included),
\* delete and clear, stats['size_bytes'] equals the sum of the size estimates
\* of the entries currently stored.
C28_SizeBytesIsSum == cache_stats.size_bytes = SumSizes(cache)

(***************************************************************************)
(* Claims about the engine's options, checked under SpecOptions.           *)
(***************************************************************************)
\* C30 (as claimed): building options leaves the shared configuration as it
\* was: get_ydl_options never modifies config.YTDLP_DEFAULT_OPTS, so the
\* options built for a video resolution are those built from the untouched
\* configuration, whatever was built before.
C30_SharedConfigUnchanged ==
    /\ options.cfg = YTDLP_DEFAULT_OPTS
    /\ options.args.video_type = "video"
       => options.built = YouTubeDownloader_get_ydl_options(YTDLP_DEFAULT_OPTS,
              options.args.video_type, options.args.quality, options.args.use_cookies).opts

(***************************************************************************)
(* Claims about the age of what /stream serves, checked under SpecStale.   *)
(***************************************************************************)
\* C29 (as claimed): every result /stream/audio or /stream/video serves
\* without an engine invocation of its own was produced by an engine
\* invocation less than CACHE_TTL seconds before it is served.
C29_ServedYoungerThanTTL ==
    [][\A r \in ReqSet :
          (/\ req[r].pc # "done" /\ req'[r].pc = "done"
           /\ req'[r].h = "stream" /\ req'[r].code = 302
           /\ req'[r].attempts = <<>>)
          => now - req'[r].result.produced < CACHE_TTL]_vars

====
